---- MODULE Spec2Model ----
(***************************************************************************)
(* Model of the career-navigation orchestrator: the persisted per-user     *)
(* context document (backend/user_context.py), the agents that rewrite it  *)
(* (backend/agents/*.py) and the orchestrator's operations                 *)
(* (backend/orchestrator.py).  The generation service is an opaque         *)
(* collaborator: every response is an input drawn from a small set, and a  *)
(* transport failure is the response LLMError (the call raises).           *)
(* Every operation is one action: it loads the document, runs the whole    *)
(* handler (every nested agent call, load and save included) and leaves    *)
(* the document as the last save left it.                                  *)
(***************************************************************************)
EXTENDS Integers, Sequences, FiniteSets, TLC

(***************************************************************************)
(* Bounds of the model.                                                    *)
(***************************************************************************)
\* operations performed in one behaviour of the rerouting specification
MaxRerouteOps == 4
\* operations performed in one behaviour of the roadmap specification
MaxRoadmapOps == 5
\* operations performed in one behaviour of the action specification
MaxActionOps == 5
\* operations performed in one behaviour of the pivot specification
MaxPivotOps == 4
\* the largest retries argument handed to call_llm and _call_llm_with_retry
MaxRetries == 5
\* operations performed in one behaviour of the agent specification
MaxAgentOps == 4
\* runs of onboard_student in one behaviour of the onboarding specification
MaxOnboardings == 2
\* times are told apart up to this many half seconds (the longest interval)
Horizon == 4

(***************************************************************************)
(* Values.                                                                 *)
(***************************************************************************)
\* Python's None where the value is otherwise a string (also what .get()
\* yields for a missing key)
None == "None"
\* Python's None where the value is otherwise an object
Null == [null |-> TRUE]
\* role titles the generation service may name
Roles == {"r1", "r2"}
\* the desired role as typed by the user
UserGoals == {"R1"}
\* str.lower() on the strings of the model
Lower(s) ==
    CASE s = "R1" -> "r1"
      [] s = "R2" -> "r2"
      [] s = "T1" -> "t1"
      [] s = "T2" -> "t2"
      [] OTHER -> s
\* the response of a generation-service call that raised
LLMError == [ok |-> FALSE]

RECURSIVE Gcd(_, _)
Gcd(a, b) == IF b = 0 THEN a ELSE Gcd(b, a % b)
\* the float n / d, kept as a reduced fraction (d > 0)
Rate(n, d) == LET g == Gcd(n, d) IN IF n = 0 THEN <<0, 1>> ELSE <<n \div g, d \div g>>
RateLess(r, n, d) == r[1] * d < n * r[2]
\* dict.update(data): the keys of data overwrite, the others stay
Update(d, data) ==
    [k \in DOMAIN d \cup DOMAIN data |-> IF k \in DOMAIN data THEN data[k] ELSE d[k]]
\* dict.get(k, default)
Get(d, k, default) == IF k \in DOMAIN d THEN d[k] ELSE default
\* d[k] = v
Put(d, k, v) == [x \in DOMAIN d \cup {k} |-> IF x = k THEN v ELSE d[x]]
\* the elements of a sequence
Range(s) == {s[i] : i \in DOMAIN s}
\* list.pop(i): the list without its i-th element
RemoveAt(s, i) == SubSeq(s, 1, i - 1) \o SubSeq(s, i + 1, Len(s))
\* the least index of s whose element is among the matching ones, 0 when there
\* is none
FirstIndex(s, matching) ==
    IF \E i \in DOMAIN s : s[i] \in matching
    THEN CHOOSE i \in DOMAIN s :
            s[i] \in matching /\ \A j \in 1..(i - 1) : s[j] \notin matching
    ELSE 0

(***************************************************************************)
(* The context document.                                                   *)
(***************************************************************************)
\* the document initialize_context writes for a new user (the step numbers
\* current_step_number and current_step are None there, written 0)
initialize_context ==
    [ career_goals |-> [ current_goal |-> None, interpreted_goal |-> Null ],
      readiness |-> [ confidence_score |-> 0, readiness_verdict |-> None ],
      market_context |-> [ target_role_analysis |-> None, market_trends |-> <<>> ],
      active_path |->
        [ path_id |-> Null, target_role |-> None, primary_path |-> Null,
          status |-> "not_started", original_target_role |-> None,
          path_change_history |-> <<>>, current_path_type |-> "original",
          timeline_months |-> None, original_timeline_months |-> None,
          is_adjusted |-> FALSE ],
      roadmap |->
        [ roadmap_id |-> Null, total_steps |-> 0, steps |-> <<>>,
          current_step_number |-> 0, completed_steps |-> <<>>,
          status |-> "generated/in_progress/completed" ],
      student_profile |-> [ experience_level |-> None ],
      reroute_state |->
        [ is_rerouting |-> FALSE, original_roadmap_id |-> Null,
          alternative_roadmaps |-> <<>>, selected_alternative_id |-> None,
          reroute_reason |-> None ],
      progress |->
        [ completed_steps |-> <<>>, current_step |-> 0,
          time_spent_hours |-> 0, completion_rate |-> <<0, 1>>,
          active_stage |-> 1, stage_completion_rate |-> <<0, 1>>,
          stage_progression_history |-> <<>>, status |-> None ],
      reroute_history |->
        [ failed_paths |-> <<>>, reroute_count |-> 0,
          selected_alternative |-> Null ],
      current_actions |->
        [ pending_actions |-> <<>>, completed_actions |-> <<>>,
          priority_actions |-> <<>> ],
      action_validations |-> << >>,
      metadata |->
        [ total_sessions |-> 0, agent_interaction_count |-> << >>,
          system_events |-> <<>> ] ]

VARIABLES
    context,    \* the persisted context document of the user
    now,        \* operations performed so far (the clock of ids and timestamps)
    last,       \* the last operation and what it returned
    hist,       \* what the operations have done so far (observations)
    call,       \* the generation-service call in flight and its retry loop
    run,        \* the onboarding run in progress: its position and results
    throttle,   \* the clock, the throttling timestamps and the callers
    writers     \* the concurrent load, mutate, save cycles on the document

vars == <<context, now, last, hist, call, run, throttle, writers>>

(***************************************************************************)
(* Responses of the generation service, one set per request.               *)
(***************************************************************************)
\* profiling: the student_profile object
ProfileResponses == {LLMError, [ok |-> TRUE, experience_level |-> "intermediate"]}
\* goal interpretation: the interpreted_goal object
GoalResponses ==
    {LLMError} \cup
    {[ok |-> TRUE, role_title |-> "r1", required_skills |-> sk] : sk \in {{}, {"python"}}}
\* readiness assessment: confidence_score in tenths (0.7)
ReadinessResponses ==
    {LLMError, [ok |-> TRUE, confidence_score |-> 7, readiness_verdict |-> "ready"]}
\* market analysis
MarketResponses == {LLMError, [ok |-> TRUE, market_analysis |-> "analysis"]}
\* path planning: the career_path object; its steps follow the agent's output
\* schema (skills_to_learn, no "skills" key)
PathResponses ==
    {LLMError} \cup
    {[ok |-> TRUE, target_role |-> r,
      primary_path |-> [steps |-> <<[step_number |-> 1, skills_to_learn |-> {"python"}]>>]]
        : r \in Roles}
\* one action of an action plan, as the service returns it
PlanAction(n) ==
    [action_id |-> IF n = 1 THEN "a1" ELSE "a2",
     title |-> IF n = 1 THEN "T1" ELSE "T2",
     priority |-> IF n = 1 THEN "high" ELSE "medium"]
\* action recommendation: the priority_actions list of the action_plan
ActionResponses ==
    {LLMError, [ok |-> TRUE, priority_actions |-> <<PlanAction(1), PlanAction(2)>>]}
\* feedback: progress_percentage and updated_confidence_score (tenths)
FeedbackResponses ==
    {LLMError,
     [ok |-> TRUE, progress_percentage |-> 60, updated_confidence_score |-> 7],
     [ok |-> TRUE, progress_percentage |-> 0, updated_confidence_score |-> 3]}

(***************************************************************************)
(* UserContextManager: the partial updates.  Each loads the document,      *)
(* changes one section and saves the whole document.                       *)
(***************************************************************************)
update_student_profile(ctx, profile_data) ==
    [ctx EXCEPT !.student_profile = Update(@, profile_data)]

update_career_goals(ctx, goal_data) ==
    [ctx EXCEPT !.career_goals = Update(@, goal_data)]

update_readiness(ctx, readiness_data) ==
    [ctx EXCEPT !.readiness = Update(@, readiness_data)]

update_market_context(ctx, market_data) ==
    [ctx EXCEPT !.market_context = Update(@, market_data)]

update_active_path(ctx, path_data) ==
    [ctx EXCEPT !.active_path = Update(@, path_data)]

update_roadmap(ctx, roadmap_data) ==
    [ctx EXCEPT !.roadmap = Update(@, roadmap_data)]

record_progress(ctx, progress_data) ==
    [ctx EXCEPT !.progress = Update(@, progress_data)]

record_reroute(ctx, reroute_data) ==
    [ctx EXCEPT !.reroute_history.reroute_count = @ + 1,
                !.reroute_history.failed_paths = Append(@, reroute_data.failed_path)]

update_actions(ctx, action_data) ==
    [ctx EXCEPT !.current_actions = Update(@, action_data)]

\* UserContextManager.log_agent_interaction
log_agent_interaction(ctx, agent_name, event_type) ==
    LET count == ctx.metadata.agent_interaction_count
        events == Append(ctx.metadata.system_events,
                         [agent |-> agent_name, event_type |-> event_type])
    IN  [ctx EXCEPT
            !.metadata.agent_interaction_count =
                Put(count, agent_name, Get(count, agent_name, 0) + 1),
            !.metadata.system_events =
                IF Len(events) > 100
                THEN SubSeq(events, Len(events) - 99, Len(events))
                ELSE events]

(***************************************************************************)
(* The agents.  Each returns the document it leaves on disk and its        *)
(* status; status "raised" is an exception leaving the agent.              *)
(***************************************************************************)
\* StudentProfilingAgent.analyze_profile
analyze_profile(ctx, llm) ==
    IF llm = LLMError THEN [ctx |-> ctx, status |-> "raised"]
    ELSE [ctx |-> log_agent_interaction(
                    update_student_profile(ctx, [experience_level |-> llm.experience_level]),
                    "Student Profiling Agent", "profile_analyzed"),
          status |-> "success"]

\* GoalInterpretationAgent.interpret_goal
interpret_goal(ctx, desired_role, llm) ==
    IF llm = LLMError THEN [ctx |-> ctx, status |-> "raised"]
    ELSE [ctx |-> log_agent_interaction(
                    update_career_goals(ctx,
                        [current_goal |-> desired_role,
                         interpreted_goal |-> [role_title |-> llm.role_title,
                                               required_skills |-> llm.required_skills]]),
                    "Goal Interpretation Agent", "goal_interpreted"),
          status |-> "success"]

\* ReadinessAssessmentAgent.assess_readiness
assess_readiness(ctx, llm) ==
    IF ctx.career_goals.interpreted_goal = Null /\ ctx.career_goals.current_goal = None
    THEN [ctx |-> ctx, status |-> "error"]
    ELSE IF llm = LLMError THEN [ctx |-> ctx, status |-> "error"]
    ELSE [ctx |-> log_agent_interaction(
                    update_readiness(ctx, [confidence_score |-> llm.confidence_score,
                                           readiness_verdict |-> llm.readiness_verdict]),
                    "Goal Readiness & Confidence Assessment Agent", "readiness_scored"),
          status |-> "success"]

\* MarketIntelligenceAgent.analyze_market; the trend entry it writes is made
\* of the analysis (its role, demand score, trend and date)
analyze_market(ctx, llm) ==
    IF ctx.career_goals.interpreted_goal = Null THEN [ctx |-> ctx, status |-> "error"]
    ELSE IF llm = LLMError THEN [ctx |-> ctx, status |-> "raised"]
    ELSE [ctx |-> log_agent_interaction(
                    update_market_context(ctx,
                        [target_role_analysis |-> llm.market_analysis,
                         market_trends |-> <<llm.market_analysis>>]),
                    "Market Intelligence Agent", "market_analyzed"),
          status |-> "success"]

\* a faulty variant of has_interpreted_goal: the goal is taken for granted
assume_interpreted_goal(ctx) == TRUE

\* the first prerequisite of generate_path: the goal has been interpreted
has_interpreted_goal(ctx) == ctx.career_goals.interpreted_goal # Null

\* CareerPathPlanningAgent.generate_path; t is the time of the call (the new
\* path_id is unique to it)
generate_path(ctx, llm, t) ==
    IF ~has_interpreted_goal(ctx)
    THEN [ctx |-> ctx, status |-> "error",
          message |-> "Missing interpreted goal. Run Goal Interpretation Agent first."]
    ELSE IF ctx.readiness.confidence_score = 0
    THEN [ctx |-> ctx, status |-> "error",
          message |-> "Missing readiness assessment. Run Readiness Assessment Agent first."]
    ELSE IF ctx.market_context.target_role_analysis = None
    THEN [ctx |-> ctx, status |-> "error",
          message |-> "Missing market analysis. Run Market Intelligence Agent first."]
    ELSE IF llm = LLMError
    THEN [ctx |-> ctx, status |-> "raised", message |-> None]
    ELSE [ctx |-> log_agent_interaction(
                    update_active_path(ctx,
                        [path_id |-> [path |-> t],
                         target_role |-> llm.target_role,
                         primary_path |-> llm.primary_path,
                         status |-> "not_started"]),
                    "Career Path Planning Agent", "path_generated"),
          status |-> "success", message |-> None]

\* an action of a plan as generate_actions stores it
StoredAction(a, stage) ==
    [action_id |-> a.action_id, title |-> a.title, priority |-> a.priority,
     stage |-> stage, status |-> "pending"]

\* ActionRecommendationAgent.generate_actions
generate_actions(ctx, llm) ==
    IF ctx.active_path.path_id = Null
    THEN [ctx |-> ctx, status |-> "error", actions |-> <<>>]
    ELSE IF llm = LLMError
    THEN [ctx |-> ctx, status |-> "raised", actions |-> <<>>]
    ELSE LET plan == llm.priority_actions
             acts == [i \in DOMAIN plan |-> StoredAction(plan[i], ctx.progress.active_stage)]
             high == SelectSeq(acts, LAMBDA a : a.priority = "high")
         IN [ctx |-> log_agent_interaction(
                        update_actions(ctx,
                            [pending_actions |-> acts,
                             priority_actions |-> [i \in DOMAIN high |-> high[i].action_id]]),
                        "Action & Recommendation Agent", "actions_generated"),
             status |-> "success", actions |-> acts]

\* FeedbackLearningAgent.evaluate_progress
evaluate_progress(ctx, llm) ==
    IF ctx.current_actions.completed_actions = <<>>
    THEN [ctx |-> ctx, status |-> "info"]
    ELSE IF llm = LLMError
    THEN [ctx |-> ctx, status |-> "raised"]
    ELSE [ctx |-> log_agent_interaction(
                    record_progress(
                        update_readiness(ctx,
                            [confidence_score |-> llm.updated_confidence_score]),
                        [completion_rate |-> Rate(llm.progress_percentage, 100)]),
                    "Feedback & Learning Agent", "feedback_generated"),
          status |-> "success"]

\* ReroutingAgent.detect_and_reroute
detect_and_reroute(ctx, llm) ==
    IF ctx.active_path.path_id = Null
    THEN [ctx |-> ctx, status |-> "error"]
    ELSE IF llm = LLMError
    THEN [ctx |-> ctx, status |-> "raised"]
    ELSE [ctx |-> log_agent_interaction(
                    update_active_path(
                        record_reroute(ctx,
                            [failed_path |-> [path_id |-> ctx.active_path.path_id,
                                              target_role |-> ctx.active_path.target_role]]),
                        [status |-> "failed"]),
                    "Re-Routing & Failure Detection Agent", "reroute_performed"),
          status |-> "success"]

(***************************************************************************)
(* Orchestrator: onboarding.                                               *)
(***************************************************************************)
\* the roadmap onboard_student saves from the generated path
PathRoadmap(ctx) ==
    [roadmap_id |-> ctx.active_path.path_id,
     total_steps |-> Len(ctx.active_path.primary_path.steps),
     steps |-> ctx.active_path.primary_path.steps,
     current_step_number |-> 1,
     completed_steps |-> <<>>,
     status |-> "generated"]

\* Orchestrator.onboard_student; r holds the response to each stage's request.
\* agent_outputs maps each stage that returned to the status it returned.
onboard_student(ctx, desired_role, r, t) ==
    LET p1 == analyze_profile(ctx, r.profile)
        p2 == interpret_goal(p1.ctx, desired_role, r.goal)
        p3 == assess_readiness(p2.ctx, r.readiness)
        p4 == analyze_market(p3.ctx, r.market)
        p5 == generate_path(p4.ctx, r.path, t)
        c5 == update_roadmap(p5.ctx, PathRoadmap(p5.ctx))
        p6 == generate_actions(c5, r.actions)
        o1 == [profiling |-> p1.status]
        o2 == Put(o1, "goal_interpretation", p2.status)
        o3 == Put(o2, "readiness", p3.status)
        o4 == Put(o3, "market", p4.status)
        o5 == Put(o4, "career_path", p5.status)
        o6 == Put(o5, "actions", p6.status)
    IN  IF p1.status = "raised"
        THEN [ctx |-> ctx, status |-> "error", agent_outputs |-> << >>]
        ELSE IF p2.status = "raised"
        THEN [ctx |-> p1.ctx, status |-> "error", agent_outputs |-> o1]
        ELSE IF p4.status = "raised"
        THEN [ctx |-> p3.ctx, status |-> "error", agent_outputs |-> o3]
        ELSE IF p4.status = "error"
        THEN [ctx |-> p3.ctx, status |-> "error", agent_outputs |-> o4]
        ELSE IF p5.status = "raised"
        THEN [ctx |-> p4.ctx, status |-> "error", agent_outputs |-> o4]
        ELSE IF p5.status = "error"
        THEN [ctx |-> p4.ctx, status |-> "error", agent_outputs |-> o5]
        ELSE IF p6.status = "raised"
        THEN [ctx |-> c5, status |-> "error", agent_outputs |-> o5]
        ELSE IF p6.status = "error"
        THEN [ctx |-> c5, status |-> "error", agent_outputs |-> o6]
        ELSE [ctx |-> p6.ctx, status |-> "success", agent_outputs |-> o6]

(***************************************************************************)
(* Orchestrator: the consistency pass.                                     *)
(***************************************************************************)
\* Orchestrator._extract_skills_from_path
_extract_skills_from_path(path) ==
    UNION {Get(path.steps[i], "skills", {}) : i \in DOMAIN path.steps}

\* Orchestrator._validate_consistency; llm answers the action request it makes
\* when no action is pending.  The document it saves at the end is the one it
\* loaded at the start with its own corrections: the save of the nested
\* generate_actions is overwritten.
_validate_consistency(ctx, llm) ==
    LET current_goal == ctx.career_goals.current_goal
        active_role == ctx.active_path.target_role
        mismatch == /\ current_goal # None
                    /\ active_role # None
                    /\ Lower(current_goal) # Lower(active_role)
        c1 == IF mismatch
              THEN [ctx EXCEPT !.career_goals.current_goal = active_role,
                               !.career_goals.interpreted_goal.role_title = active_role]
              ELSE ctx
        has_path == ctx.active_path.primary_path # Null
        skills_gap == /\ has_path
                      /\ c1.career_goals.interpreted_goal # Null
                      /\ c1.career_goals.interpreted_goal.required_skills
                            \ _extract_skills_from_path(ctx.active_path.primary_path) # {}
        no_actions == /\ ctx.current_actions.pending_actions = <<>>
                      /\ ctx.active_path.status # "completed"
        regen == generate_actions(ctx, llm)
        low_confidence == ctx.readiness.confidence_score < 4
        status_mismatch == /\ ctx.active_path.status = "not_started"
                           /\ ctx.progress.completion_rate[1] > 0
        c2 == IF status_mismatch
              THEN [c1 EXCEPT !.progress.completed_steps = <<>>,
                              !.progress.completion_rate = <<0, 1>>]
              ELSE c1
        n == Cardinality({x \in {<<1, mismatch>>, <<2, skills_gap>>, <<3, no_actions>>,
                                 <<4, low_confidence>>, <<5, status_mismatch>>} : x[2]})
    IN  IF \/ (mismatch \/ has_path) /\ ctx.career_goals.interpreted_goal = Null
           \/ no_actions /\ regen.status = "raised"
        THEN [ctx |-> ctx, status |-> "raised", total_issues |-> 0, total_fixes |-> 0]
        ELSE [ctx |-> c2, status |-> "returned", total_issues |-> n, total_fixes |-> n]

(***************************************************************************)
(* Orchestrator: applying and reverting a reroute.                         *)
(***************************************************************************)
\* what a caller may hand to apply_alternative_path: an alternative and the
\* path_type
AlternativeChoices ==
    {<<[new_target_role |-> "r2"], "alternative">>,
     <<[extended_timeline_months |-> 15], "adjusted_original">>}

\* a faulty variant of keep_original_target_role: the role is recorded at
\* every application
overwrite_original_target_role(active_path) == active_path.target_role

\* the original_target_role apply_alternative_path leaves: the target role of
\* the time, recorded only where none is recorded yet
keep_original_target_role(active_path) ==
    IF active_path.original_target_role = None
    THEN active_path.target_role
    ELSE active_path.original_target_role

\* Orchestrator.apply_alternative_path, up to its first save
apply_alternative_path_save(ctx, alternative_path, path_type, option_index) ==
    LET ap == ctx.active_path
        new_role == Get(alternative_path, "new_target_role", None)
        original == keep_original_target_role(ap)
        path_change == [type |-> path_type, from_role |-> ap.target_role,
                        to_role |-> new_role, option_index |-> option_index]
        ap1 == IF path_type = "alternative"
               THEN [ap EXCEPT !.original_target_role = original,
                               !.target_role = new_role,
                               !.status = "not_started",
                               !.current_path_type = "alternative"]
               ELSE [ap EXCEPT !.original_target_role = original,
                               !.status = "not_started",
                               !.current_path_type = "adjusted_original",
                               !.original_timeline_months =
                                   Get(alternative_path, "extended_timeline_months", @)]
    IN  [ctx EXCEPT
            !.active_path = [ap1 EXCEPT !.path_change_history = Append(@, path_change)],
            !.reroute_history.reroute_count = @ + 1,
            !.reroute_history.selected_alternative =
                [selected_role |-> new_role, type |-> path_type],
            !.progress.completed_steps = <<>>,
            !.progress.current_step = 0,
            !.progress.completion_rate = <<0, 1>>,
            !.progress.time_spent_hours = 0,
            !.current_actions.completed_actions = @ \o ctx.current_actions.pending_actions,
            !.current_actions.pending_actions = <<>>,
            !.current_actions.priority_actions = <<>>]

\* the regeneration both apply_alternative_path and revert_to_original_path run
\* after their save: path, actions, feedback, then the consistency pass.  An
\* exception in any of them ends the operation with what was saved before it.
regenerate(ctx, r, t) ==
    LET p == generate_path(ctx, r.path, t)
        a == generate_actions(p.ctx, r.actions)
        f == evaluate_progress(a.ctx, r.feedback)
        \* the pass asks for actions only when none is pending, and then the
        \* request of generate_actions was not made: r.actions answers it
        v == _validate_consistency(f.ctx, r.actions)
    IN  IF p.status = "raised" THEN [ctx |-> ctx, raised |-> TRUE, check |-> v]
        ELSE IF a.status = "raised" THEN [ctx |-> p.ctx, raised |-> TRUE, check |-> v]
        ELSE IF f.status = "raised" THEN [ctx |-> a.ctx, raised |-> TRUE, check |-> v]
        ELSE IF v.status = "raised" THEN [ctx |-> f.ctx, raised |-> TRUE, check |-> v]
        ELSE [ctx |-> v.ctx, raised |-> FALSE, check |-> v]

\* Orchestrator.apply_alternative_path
apply_alternative_path(ctx, alternative_path, path_type, option_index, r, t) ==
    LET saved == apply_alternative_path_save(ctx, alternative_path, path_type, option_index)
        g == regenerate(saved, r, t)
    IN  [ctx |-> g.ctx,
         status |-> IF g.raised THEN "failure" ELSE "success",
         new_target_role |-> Get(alternative_path, "new_target_role", None),
         path_type |-> path_type]

\* Orchestrator.apply_adjusted_original_path
apply_adjusted_original_path(ctx, adjusted_path) ==
    LET ap == ctx.active_path
        months == Get(adjusted_path, "extended_timeline_months", None)
        path_change == [type |-> "adjusted_original", role |-> ap.target_role,
                        new_timeline_months |-> months]
    IN  [ctx |->
            [ctx EXCEPT
                !.active_path.timeline_months =
                    Get(adjusted_path, "extended_timeline_months", @),
                !.active_path.is_adjusted = TRUE,
                !.active_path.path_change_history = Append(@, path_change),
                !.reroute_history.reroute_count = @ + 1,
                !.reroute_history.selected_alternative =
                    [selected_option |-> "adjusted_original", new_timeline |-> months]],
         status |-> "success"]

\* a faulty variant of insufficient_completion: no completion is too low
any_completion_suffices(completion) == RateLess(completion, 0, 10)

\* completion_on_alternative < 0.6
insufficient_completion(completion) == RateLess(completion, 6, 10)

\* Orchestrator.revert_to_original_path
revert_to_original_path(ctx, r, t) ==
    LET original_role == ctx.active_path.original_target_role
        alternative_role == ctx.active_path.target_role
        completion == ctx.progress.completion_rate
        path_change == [type |-> "reversion", from_role |-> alternative_role,
                        to_role |-> original_role]
        saved == [ctx EXCEPT
                    !.active_path.target_role = original_role,
                    !.active_path.status = "resumed",
                    !.active_path.current_path_type = "original",
                    !.active_path.path_change_history = Append(@, path_change),
                    !.reroute_history.reroute_count = @ + 1,
                    !.progress.status = "resumed_from_alternative"]
        g == regenerate(saved, r, t)
    IN  IF original_role = None
        THEN [ctx |-> ctx, status |-> "error"]
        ELSE IF insufficient_completion(completion)
        THEN [ctx |-> ctx, status |-> "warning"]
        ELSE [ctx |-> g.ctx, status |-> IF g.raised THEN "error" ELSE "success"]

(***************************************************************************)
(* Orchestrator: the roadmap and the rerouting machine.                    *)
(***************************************************************************)
\* one action of a roadmap step as generate_roadmap stores it
RoadmapAction(id, title) ==
    [action_id |-> id, title |-> title, status |-> "pending", questions |-> FALSE,
     relevance_score |-> 0, agent_satisfied |-> FALSE, attempts |-> 0]

\* one step of a roadmap as generate_roadmap stores it
RoadmapStep(n, actions) ==
    [step_number |-> n, actions |-> actions,
     status |-> IF n > 1 THEN "pending" ELSE "in_progress",
     completion_percentage |-> <<0, 1>>]

\* roadmap generation: the steps of the roadmap object (numbered from 1, with
\* total_steps their number), or text that holds no JSON object
RoadmapResponses ==
    {LLMError,
     [ok |-> TRUE, parsed |-> FALSE],
     [ok |-> TRUE, parsed |-> TRUE,
      steps |-> <<RoadmapStep(1, <<RoadmapAction("s1a1", "S1A1"), RoadmapAction("s1a2", "S1A2")>>),
                  RoadmapStep(2, <<RoadmapAction("s2a1", "S2A1")>>)>>],
     [ok |-> TRUE, parsed |-> TRUE,
      steps |-> <<RoadmapStep(1, <<RoadmapAction("s1a1", "S1A1")>>)>>]}

\* Orchestrator.generate_roadmap
generate_roadmap(ctx, llm, t) ==
    IF llm = LLMError \/ ~llm.parsed
    THEN [ctx |-> ctx, status |-> "error", roadmap |-> Null]
    ELSE LET roadmap_structure ==
                [roadmap_id |-> [roadmap |-> t],
                 total_steps |-> Len(llm.steps),
                 steps |-> llm.steps,
                 current_step_number |-> 1,
                 completed_steps |-> <<>>,
                 status |-> "in_progress"]
         IN [ctx |-> [ctx EXCEPT !.roadmap = roadmap_structure],
             status |-> "success", roadmap |-> roadmap_structure]

\* deviation analysis: the alternatives list of the response, or no JSON
DeviationResponses ==
    {LLMError,
     [ok |-> TRUE, parsed |-> FALSE],
     [ok |-> TRUE, parsed |-> TRUE, alternatives |-> <<>>],
     [ok |-> TRUE, parsed |-> TRUE,
      alternatives |-> <<[option_id |-> "1", new_target_role |-> "r1"],
                         [option_id |-> "2", new_target_role |-> "r2"]>>]}

\* Orchestrator.detect_deviation_and_reroute
detect_deviation_and_reroute(ctx, deviation_reason, llm) ==
    IF llm = LLMError \/ ~llm.parsed
    THEN [ctx |-> ctx, status |-> "error"]
    ELSE [ctx |-> [ctx EXCEPT
                    !.reroute_state.is_rerouting = TRUE,
                    !.reroute_state.original_roadmap_id = ctx.roadmap.roadmap_id,
                    !.reroute_state.alternative_roadmaps = llm.alternatives,
                    !.reroute_state.reroute_reason = deviation_reason],
          status |-> "success"]

\* the options a caller may name in select_reroute_option
OptionIds == {"1", "2", "original_adjusted"}

\* Orchestrator.select_reroute_option.  The roadmap is generated from, and
\* saved into, the document on disk; the operation then saves the document it
\* loaded at its start with its own changes.
select_reroute_option(ctx, option_id, llm, t) ==
    LET reroute_state == ctx.reroute_state
        alts == reroute_state.alternative_roadmaps
        i == FirstIndex(alts, {alt \in Range(alts) : alt.option_id = option_id})
        is_adjusted_original == option_id = "original_adjusted"
        \* reroute_state holds no "adjusted_original" key: .get() yields {}
        found == ~is_adjusted_original /\ i > 0
        new_role == alts[i].new_target_role
        selected == [ctx EXCEPT
                        !.reroute_state.selected_alternative_id = option_id,
                        !.reroute_state.is_rerouting = FALSE,
                        !.active_path.target_role = new_role,
                        !.active_path.current_path_type = "rerouted",
                        !.reroute_history.reroute_count = @ + 1,
                        !.reroute_history.selected_alternative =
                            [new_role |-> new_role,
                             reason |-> reroute_state.reroute_reason]]
        roadmap_result == generate_roadmap(ctx, llm, t)
    IN  IF ~reroute_state.is_rerouting
        THEN [ctx |-> ctx, status |-> "error", message |-> "No active rerouting",
              new_target_role |-> None, roadmap |-> Null]
        ELSE IF ~found
        THEN [ctx |-> ctx, status |-> "error", message |-> "Selected option not found",
              new_target_role |-> None, roadmap |-> Null]
        ELSE IF roadmap_result.status # "success"
        THEN [ctx |-> ctx, status |-> "error", message |-> "Failed to generate new roadmap",
              new_target_role |-> None, roadmap |-> Null]
        ELSE [ctx |-> selected, status |-> "success", message |-> "Applied reroute option",
              new_target_role |-> new_role, roadmap |-> roadmap_result.roadmap]

\* Orchestrator.complete_rerouted_roadmap
complete_rerouted_roadmap(ctx) ==
    IF ctx.reroute_state.original_roadmap_id = Null
    THEN [ctx |-> ctx, status |-> "success", redirect_available |-> FALSE]
    ELSE [ctx |-> [ctx EXCEPT !.reroute_state =
                        Update(@, [alternative_completion_percentage |-> Rate(1, 1),
                                   redirect_to_step |-> 1])],
          status |-> "success", redirect_available |-> TRUE]

(***************************************************************************)
(* Orchestrator: the action plan (current_actions).                        *)
(***************************************************************************)
\* the names by which a caller may refer to an action of the plan
ActionKeys == {"T1", "a1", "T2"}

\* validation scoring: total_score of the evaluation object (0..9), or text
\* that holds no JSON object
ValidationResponses ==
    {LLMError, [ok |-> TRUE, parsed |-> FALSE]} \cup
    {[ok |-> TRUE, parsed |-> TRUE, total_score |-> sc] : sc \in {4, 7}}

\* the test complete_action, validate_action_completion (failed branch) and
\* the roadmap operations apply to an action of the plan
matches_action(action, action_id) ==
    \/ Get(action, "title", None) = action_id
    \/ Get(action, "id", None) = action_id
    \/ Get(action, "action_id", None) = action_id

\* the test the move to completed_actions applies: title, stripped and
\* lower-cased, against the identifier, stripped and lower-cased
matches_title(action, action_id) ==
    Lower(Get(action, "title", "")) = Lower(action_id)

\* Orchestrator.complete_action
complete_action(ctx, action_id) ==
    LET pending == ctx.current_actions.pending_actions
        completed == ctx.current_actions.completed_actions
        all_actions == pending \o completed
        i == FirstIndex(all_actions,
                        {a \in Range(all_actions) : matches_action(a, action_id)})
        attempt(a) == Update(a, [status |-> "in_progress",
                                 attempts |-> Get(a, "attempts", 0) + 1])
        c1 == IF i <= Len(pending)
              THEN [ctx EXCEPT !.current_actions.pending_actions[i] = attempt(@)]
              ELSE [ctx EXCEPT !.current_actions.completed_actions[i - Len(pending)] = attempt(@)]
    IN  IF i = 0
        THEN [ctx |-> ctx, status |-> "error"]
        ELSE [ctx |-> [c1 EXCEPT !.action_validations =
                            Put(@, action_id, [status |-> "pending"])],
              status |-> "success"]

\* a faulty variant of next_stage_after: a stage is skipped
next_stage_skipping(active_stage) == active_stage + 2

\* the stage _check_stage_progression asks _generate_next_stage for
next_stage_after(active_stage) == active_stage + 1

\* Orchestrator._allocate_next_action
_allocate_next_action(ctx) ==
    IF ctx.current_actions.pending_actions # <<>>
    THEN [ctx EXCEPT !.current_actions.pending_actions[1].status = "in_progress"]
    ELSE ctx

\* Orchestrator._generate_next_stage on the document the caller holds; disk is
\* the document on disk, which the nested generate_actions loads.  The caller
\* saves the document it holds afterwards, whatever happened here.
\* progress.current_step is None (written 0) unless a stage was generated, and
\* then current_step + 1 raises before the generation request is made.
_generate_next_stage(ctx, disk, next_stage, llm) ==
    LET c1 == [ctx EXCEPT !.progress.active_stage = next_stage,
                          !.progress.stage_completion_rate = <<0, 1>>]
        current_step == c1.progress.current_step
        result == generate_actions(disk, llm)
        tagged == [i \in DOMAIN result.actions |->
                    [result.actions[i] EXCEPT
                        !.stage = next_stage,
                        !.status = IF i = 1 THEN "in_progress" ELSE "pending"]]
    IN  IF current_step = 0 THEN c1
        ELSE IF result.status # "success" THEN c1
        ELSE [c1 EXCEPT
                !.current_actions.pending_actions = tagged,
                !.progress.current_step = current_step + 1,
                !.progress.stage_progression_history =
                    Append(@, [stage |-> next_stage, action_count |-> Len(tagged)])]

\* Orchestrator._check_stage_progression; stage_event tells whether the stage
\* was found complete and the next one asked for
_check_stage_progression(ctx, disk, llm) ==
    LET active_stage == ctx.progress.active_stage
        pending == ctx.current_actions.pending_actions
        completed == ctx.current_actions.completed_actions
        in_stage(a) == Get(a, "stage", 0) = active_stage
        stage_actions == SelectSeq(completed, in_stage)
        total_stage_actions == Len(SelectSeq(completed \o pending, in_stage))
        validated(a) ==
            LET v == Get(ctx.action_validations, Get(a, "title", None), << >>)
            IN  Get(Get(v, "evaluation", << >>), "total_score", 0) >= 6
        all_validated == \A i \in DOMAIN stage_actions : validated(stage_actions[i])
        c1 == [ctx EXCEPT !.progress.stage_completion_rate =
                                Rate(Len(stage_actions), total_stage_actions)]
    IN  IF total_stage_actions = 0
        THEN [ctx |-> ctx, stage_event |-> FALSE]
        ELSE IF Len(stage_actions) = total_stage_actions /\ all_validated
        THEN [ctx |-> _generate_next_stage(c1, disk, next_stage_after(active_stage), llm),
              stage_event |-> TRUE]
        ELSE [ctx |-> c1, stage_event |-> FALSE]

\* Orchestrator.validate_action_completion; llm answers the scoring request,
\* next the action request of a stage generation
validate_action_completion(ctx, action_id, llm, next) ==
    LET pending == ctx.current_actions.pending_actions
        evaluated == [ctx EXCEPT !.action_validations[action_id] =
                        Update(@, [status |-> "completed",
                                   evaluation |-> [total_score |-> llm.total_score]])]
        \* total_score >= 6: the move, which looks the identifier up by title
        action_index == FirstIndex(pending,
                            {a \in Range(pending) : matches_title(a, action_id)})
        action_to_move == Update(pending[action_index],
                                 [status |-> "completed",
                                  relevance_score |-> Rate(llm.total_score, 9),
                                  agent_satisfied |-> TRUE])
        moved == [evaluated EXCEPT
                    !.current_actions.pending_actions = RemoveAt(@, action_index),
                    !.current_actions.completed_actions = Append(@, action_to_move)]
        staged == _check_stage_progression(_allocate_next_action(moved), moved, next)
        \* total_score < 6: the attempt is counted on the pending action
        j == FirstIndex(pending,
                        {a \in Range(pending) : matches_action(a, action_id)})
        retry == [evaluated EXCEPT !.action_validations[action_id] =
                        Update(@, [retry_suggested |-> TRUE])]
        failed == IF j = 0 THEN retry
                  ELSE [retry EXCEPT !.current_actions.pending_actions[j] =
                            Update(@, [attempts |-> Get(@, "attempts", 0) + 1])]
    IN  IF action_id \notin DOMAIN ctx.action_validations
        THEN [ctx |-> ctx, status |-> "error", score |-> 0, stage_event |-> FALSE]
        ELSE IF llm = LLMError \/ ~llm.parsed
        THEN [ctx |-> ctx, status |-> "error", score |-> 0, stage_event |-> FALSE]
        ELSE IF llm.total_score >= 6
        THEN IF action_index > 0
             THEN [ctx |-> staged.ctx, status |-> "success", score |-> llm.total_score,
                   stage_event |-> staged.stage_event]
             ELSE [ctx |-> ctx, status |-> "success", score |-> llm.total_score,
                   stage_event |-> FALSE]
        ELSE [ctx |-> failed, status |-> "success", score |-> llm.total_score,
              stage_event |-> FALSE]

\* Orchestrator.mark_action_as_completed, with the default time_spent_hours
mark_action_as_completed(ctx, action_id, next) ==
    LET pending == ctx.current_actions.pending_actions
        action_index == FirstIndex(pending,
                            {a \in Range(pending) : matches_title(a, action_id)})
        action_to_move == Update(pending[action_index],
                                 [status |-> "completed",
                                  relevance_score |-> Rate(9, 9),
                                  agent_satisfied |-> TRUE,
                                  time_spent_hours |-> 1])
        moved == [ctx EXCEPT
                    !.current_actions.pending_actions = RemoveAt(@, action_index),
                    !.current_actions.completed_actions = Append(@, action_to_move),
                    !.progress.time_spent_hours = @ + 1]
        staged == _check_stage_progression(_allocate_next_action(moved), moved, next)
        c == staged.ctx
        completed == c.current_actions.completed_actions
        total_actions == Len(completed) + Len(c.current_actions.pending_actions)
    IN  IF action_index = 0
        THEN [ctx |-> ctx, status |-> "error", stage_event |-> FALSE]
        ELSE [ctx |-> [c EXCEPT
                        !.progress.completion_rate =
                            IF total_actions > 0 THEN Rate(Len(completed), total_actions) ELSE @,
                        !.progress.completed_steps =
                            [i \in DOMAIN completed |-> Get(completed[i], "title", "")]],
              status |-> "success", stage_event |-> staged.stage_event]

(***************************************************************************)
(* Orchestrator: progress through the roadmap.                             *)
(***************************************************************************)
\* step numbers and action names a caller may pass to the roadmap operations
StepNumbers == {1, 2}
RoadmapActionIds == {"s1a1", "s1a2", "s2a1"}

\* answer evaluation: relevance_score in tenths, or text that holds no JSON
EvaluationResponses ==
    {LLMError, [ok |-> TRUE, parsed |-> FALSE]} \cup
    {[ok |-> TRUE, parsed |-> TRUE, relevance_score |-> sc] : sc \in {4, 5}}

\* FeedbackLearningAgent.evaluate_action_answers
evaluate_action_answers(llm) ==
    IF llm = LLMError
    THEN [relevance_score |-> 0, agent_satisfied |-> FALSE]
    ELSE IF ~llm.parsed
    THEN [relevance_score |-> 5, agent_satisfied |-> FALSE]
    ELSE [relevance_score |-> llm.relevance_score,
          agent_satisfied |-> llm.relevance_score >= 5]

\* where complete_action_in_roadmap and submit_action_answers find the action:
\* in the step numbered step_number of the roadmap, else in the action plan
find_target_action(ctx, step_number, action_id) ==
    LET steps == ctx.roadmap.steps
        s == FirstIndex(steps, {st \in Range(steps) : st.step_number = step_number})
        a == IF s = 0 THEN 0
             ELSE FirstIndex(Get(steps[s], "actions", <<>>),
                     {ac \in Range(Get(steps[s], "actions", <<>>)) :
                         \/ Get(ac, "action_id", None) = action_id
                         \/ Get(ac, "id", None) = action_id})
        pending == ctx.current_actions.pending_actions
        completed == ctx.current_actions.completed_actions
        i == FirstIndex(pending \o completed,
                        {ac \in Range(pending \o completed) : matches_action(ac, action_id)})
    IN  IF a > 0 THEN [where |-> "roadmap", step |-> s, action |-> a]
        ELSE IF i = 0 THEN [where |-> "nowhere", step |-> 0, action |-> 0]
        ELSE IF i <= Len(pending) THEN [where |-> "pending", step |-> 0, action |-> i]
        ELSE [where |-> "completed", step |-> 0, action |-> i - Len(pending)]

\* the action at a place found by find_target_action
target_action_at(ctx, at) ==
    CASE at.where = "roadmap" -> ctx.roadmap.steps[at.step].actions[at.action]
      [] at.where = "pending" -> ctx.current_actions.pending_actions[at.action]
      [] at.where = "completed" -> ctx.current_actions.completed_actions[at.action]

\* the document with the fields of data written into that action
with_target_action(ctx, at, data) ==
    CASE at.where = "roadmap" ->
            [ctx EXCEPT !.roadmap.steps[at.step].actions[at.action] = Update(@, data)]
      [] at.where = "pending" ->
            [ctx EXCEPT !.current_actions.pending_actions[at.action] = Update(@, data)]
      [] at.where = "completed" ->
            [ctx EXCEPT !.current_actions.completed_actions[at.action] = Update(@, data)]

\* Orchestrator.complete_action_in_roadmap (generate_validation_questions
\* always answers success: it falls back to template questions)
complete_action_in_roadmap(ctx, step_number, action_id) ==
    LET at == find_target_action(ctx, step_number, action_id)
        target_action == target_action_at(ctx, at)
    IN  IF at.where = "nowhere"
        THEN [ctx |-> ctx, status |-> "error"]
        ELSE [ctx |-> with_target_action(ctx, at,
                        [status |-> "in_progress",
                         attempts |-> Get(target_action, "attempts", 0) + 1,
                         questions |-> TRUE]),
              status |-> "success"]

\* a faulty variant of satisfied_actions: every attempted action counts
attempted_actions(target_step) ==
    Len(SelectSeq(Get(target_step, "actions", <<>>),
                  LAMBDA a : Get(a, "attempts", 0) > 0))

\* the number of actions of a step that _check_step_completion counts as done
satisfied_actions(target_step) ==
    Len(SelectSeq(Get(target_step, "actions", <<>>),
                  LAMBDA a : Get(a, "agent_satisfied", FALSE)))

\* a faulty variant of has_next_step: a next step is always looked for
always_next_step(step_number, roadmap) == TRUE

\* step_number < roadmap.get("total_steps", 0): a step follows this one
has_next_step(step_number, roadmap) == step_number < roadmap.total_steps

\* Orchestrator._check_step_completion
_check_step_completion(ctx, step_number) ==
    LET roadmap == ctx.roadmap
        s == FirstIndex(roadmap.steps,
                        {st \in Range(roadmap.steps) : st.step_number = step_number})
        target_step == roadmap.steps[s]
        completed_actions == satisfied_actions(target_step)
        total_actions == Len(Get(target_step, "actions", <<>>))
        c1 == [ctx EXCEPT !.roadmap.steps[s].completion_percentage =
                            IF total_actions > 0
                            THEN Rate(completed_actions, total_actions) ELSE <<0, 1>>]
        c2 == [c1 EXCEPT !.roadmap.steps[s].status = "completed",
                         !.roadmap.completed_steps = Append(@, step_number)]
        n == FirstIndex(roadmap.steps,
                        {st \in Range(roadmap.steps) : st.step_number = step_number + 1})
    IN  IF s = 0 THEN ctx
        ELSE IF ~(completed_actions = total_actions /\ total_actions > 0) THEN c1
        ELSE IF has_next_step(step_number, roadmap)
        THEN IF n = 0 THEN c2
             ELSE [c2 EXCEPT !.roadmap.steps[n].status = "in_progress",
                             !.roadmap.current_step_number = step_number + 1]
        ELSE [c2 EXCEPT !.roadmap.status = "completed"]

\* Orchestrator.submit_action_answers
submit_action_answers(ctx, step_number, action_id, llm) ==
    LET at == find_target_action(ctx, step_number, action_id)
        target_action == target_action_at(ctx, at)
        attempts == Get(target_action, "attempts", 0)
        evaluation == evaluate_action_answers(llm)
        scored == with_target_action(ctx, at,
                    [attempts |-> attempts,
                     relevance_score |-> evaluation.relevance_score,
                     agent_satisfied |-> evaluation.agent_satisfied,
                     status |-> IF evaluation.agent_satisfied
                                THEN "completed" ELSE "pending"])
        \* the failure reason is the text "Repeated failure on action: <title>"
        rerouting == [scored EXCEPT !.reroute_state =
                        Update(@, [is_rerouting |-> TRUE,
                                   auto_detected |-> TRUE,
                                   failed_action_id |-> action_id,
                                   failure_reason |->
                                     [text |-> "Repeated failure on action: ",
                                      title |-> Get(target_action, "title", "Unknown")]])]
    IN  IF at.where = "nowhere"
        THEN [ctx |-> ctx, status |-> "error", agent_satisfied |-> FALSE]
        ELSE [ctx |-> IF evaluation.agent_satisfied
                      THEN _check_step_completion(scored, step_number)
                      ELSE IF attempts >= 3 THEN rerouting ELSE scored,
              status |-> "success", agent_satisfied |-> evaluation.agent_satisfied]

(***************************************************************************)
(* The state machine: one action per operation of the orchestrator.        *)
(***************************************************************************)
NoOp == [op |-> "none", status |-> "none"]
NoStreak == [op |-> "none", key |-> "none", step |-> 0, n |-> 0]
\* no call of the generation service has been started
NoCall == [status |-> "idle"]
\* no onboarding run has been started
NoRun == [stage |-> "idle"]
\* no cycle on the document has been started
NoCycle == [pc |-> "idle"]
\* the threads that call the generation service, and those of them that
\* write the document
Threads == {1, 2}
\* no thread is calling the generation service
NotCalling == [pc |-> "idle"]
\* the clocks of the throttles: the package-level wrapper of requests.post,
\* APIClient, api_utils and the orchestrator instance
Stamps == {"package", "api_client", "api_utils", "orchestrator"}
\* at start every timestamp is 0, the epoch: longer ago than any interval.
\* age is the time since each timestamp, since the time since the last
\* dispatch and gap the time between the last two dispatches, in half
\* seconds and up to Horizon
ThrottleInit ==
    [age |-> [c \in Stamps |-> Horizon], since |-> Horizon, gap |-> Horizon,
     sent |-> 0, by |-> 0, site |-> "none", apart |-> TRUE, waited |-> FALSE,
     threads |-> [th \in Threads |-> NotCalling]]

Init ==
    /\ context = initialize_context
    /\ now = 0
    /\ last = NoOp
    /\ hist = [applied_reroutes |-> 0, stage_events |-> 0, streak |-> NoStreak]
    /\ call = NoCall
    /\ run = NoRun
    /\ throttle = ThrottleInit
    /\ writers = [w \in Threads |-> NoCycle]

\* an operation ends: the document is as its last save left it
Returns(ctx, result, h) ==
    /\ context' = ctx
    /\ now' = now + 1
    /\ last' = result
    /\ hist' = h
    /\ UNCHANGED <<call, run, throttle, writers>>

\* the count of applied reroutes after an operation that applies one
applied(status) ==
    [hist EXCEPT !.applied_reroutes = IF status = "success" THEN @ + 1 ELSE @]

\* the count of stage completions after an operation that may find one
staged(stage_event) ==
    [hist EXCEPT !.stage_events = IF stage_event THEN @ + 1 ELSE @]

\* the run of consecutive below-threshold validations after a validation of
\* the action named key by operation op
streak_after(op, key, step, validated, passed) ==
    IF ~validated THEN hist.streak
    ELSE IF passed THEN NoStreak
    ELSE IF hist.streak.op = op /\ hist.streak.key = key /\ hist.streak.step = step
    THEN [hist.streak EXCEPT !.n = @ + 1]
    ELSE [op |-> op, key |-> key, step |-> step, n |-> 1]

\* onboarding of a new user
Onboard ==
    /\ context = initialize_context
    /\ \E desired_role \in UserGoals, profile \in ProfileResponses, goal \in GoalResponses,
          readiness \in ReadinessResponses, market \in MarketResponses,
          path \in PathResponses, actions \in ActionResponses :
        LET res == onboard_student(context, desired_role,
                        [profile |-> profile, goal |-> goal, readiness |-> readiness,
                         market |-> market, path |-> path, actions |-> actions], now)
        IN  Returns(res.ctx, [op |-> "onboard_student", status |-> res.status], hist)

EvaluateAndFeedback ==
    \E llm \in FeedbackResponses :
        LET res == evaluate_progress(context, llm)
        IN  Returns(res.ctx, [op |-> "evaluate_and_feedback", status |-> res.status], hist)

\* failure detection: the analysis is all the model keeps of the response
RerouteResponses == {LLMError, [ok |-> TRUE]}

HandleFailureAndReroute ==
    \E llm \in RerouteResponses :
        LET res == detect_and_reroute(context, llm)
        IN  Returns(res.ctx, [op |-> "handle_failure_and_reroute", status |-> res.status], hist)

\* the responses to the requests of a regeneration
Regenerations ==
    [path : PathResponses, actions : ActionResponses,
     feedback : {LLMError,
                 [ok |-> TRUE, progress_percentage |-> 60, updated_confidence_score |-> 7]}]

ApplyAlternativePath ==
    \E choice \in AlternativeChoices, r \in Regenerations :
        LET res == apply_alternative_path(context, choice[1], choice[2], 0, r, now)
        IN  Returns(res.ctx,
                    [op |-> "apply_alternative_path", status |-> res.status,
                     path_type |-> res.path_type, new_target_role |-> res.new_target_role],
                    applied(res.status))

ApplyAdjustedOriginalPath ==
    LET res == apply_adjusted_original_path(context, [extended_timeline_months |-> 15])
    IN  Returns(res.ctx, [op |-> "apply_adjusted_original_path", status |-> res.status],
                applied(res.status))

RevertToOriginalPath ==
    \E r \in Regenerations :
        LET res == revert_to_original_path(context, r, now)
        IN  Returns(res.ctx, [op |-> "revert_to_original_path", status |-> res.status], hist)

ValidateConsistency ==
    \E llm \in ActionResponses :
        LET res == _validate_consistency(context, llm)
            \* whether the operation just before was a pass that returned
            repeated == last.op = "_validate_consistency" /\ last.status = "returned"
        IN  Returns(res.ctx,
                    [op |-> "_validate_consistency", status |-> res.status,
                     total_issues |-> res.total_issues, total_fixes |-> res.total_fixes,
                     repeated |-> repeated],
                    hist)

GenerateRoadmap ==
    \E llm \in RoadmapResponses :
        LET res == generate_roadmap(context, llm, now)
        IN  Returns(res.ctx, [op |-> "generate_roadmap", status |-> res.status], hist)

DetectDeviationAndReroute ==
    \E llm \in DeviationResponses :
        LET res == detect_deviation_and_reroute(context, "deviation", llm)
        IN  Returns(res.ctx, [op |-> "detect_deviation_and_reroute", status |-> res.status],
                    hist)

SelectRerouteOption ==
    \E option_id \in OptionIds, llm \in RoadmapResponses :
        LET res == select_reroute_option(context, option_id, llm, now)
        IN  Returns(res.ctx,
                    IF res.status = "success"
                    THEN [op |-> "select_reroute_option", status |-> res.status,
                          option_id |-> option_id,
                          new_target_role |-> res.new_target_role,
                          roadmap |-> res.roadmap]
                    ELSE [op |-> "select_reroute_option", status |-> res.status,
                          option_id |-> option_id, message |-> res.message],
                    applied(res.status))

CompleteReroutedRoadmap ==
    LET res == complete_rerouted_roadmap(context)
    IN  Returns(res.ctx,
                [op |-> "complete_rerouted_roadmap", status |-> res.status,
                 redirect_available |-> res.redirect_available],
                hist)

\* the responses to the action request of a stage generation; the request
\* is made only when progress.current_step is a number
StageGenerationResponses ==
    IF context.progress.current_step = 0 THEN {LLMError} ELSE ActionResponses

\* the attempts counted so far on the first action of the plan, pending or
\* completed, that answers to the identifier
attempts_so_far(ctx, action_id) ==
    LET all_actions == ctx.current_actions.pending_actions
                        \o ctx.current_actions.completed_actions
        i == FirstIndex(all_actions,
                        {a \in Range(all_actions) : matches_action(a, action_id)})
    IN  IF i = 0 THEN 0 ELSE Get(all_actions[i], "attempts", 0)

CompleteAction ==
    \E action_id \in ActionKeys :
        LET res == complete_action(context, action_id)
        IN  Returns(res.ctx,
                    [op |-> "complete_action", status |-> res.status,
                     action_id |-> action_id,
                     attempts |-> attempts_so_far(context, action_id)],
                    hist)

ValidateActionCompletion ==
    \E action_id \in ActionKeys, llm \in ValidationResponses,
       next \in StageGenerationResponses :
        LET res == validate_action_completion(context, action_id, llm, next)
            was_pending == \E i \in DOMAIN context.current_actions.pending_actions :
                matches_action(context.current_actions.pending_actions[i], action_id)
            h == staged(res.stage_event)
        IN  Returns(res.ctx,
                    IF res.status = "success"
                    THEN [op |-> "validate_action_completion", status |-> res.status,
                          action_id |-> action_id, score |-> res.score,
                          was_pending |-> was_pending]
                    ELSE [op |-> "validate_action_completion", status |-> res.status],
                    [h EXCEPT !.streak =
                        streak_after("validate_action_completion", action_id, 0,
                                     res.status = "success", res.score >= 6)])

MarkActionAsCompleted ==
    \E action_id \in ActionKeys, next \in StageGenerationResponses :
        LET res == mark_action_as_completed(context, action_id, next)
        IN  Returns(res.ctx, [op |-> "mark_action_as_completed", status |-> res.status],
                    staged(res.stage_event))

CompleteActionInRoadmap ==
    \E step_number \in StepNumbers, action_id \in RoadmapActionIds :
        LET res == complete_action_in_roadmap(context, step_number, action_id)
        IN  Returns(res.ctx,
                    [op |-> "complete_action_in_roadmap", status |-> res.status], hist)

SubmitActionAnswers ==
    \E step_number \in StepNumbers, action_id \in RoadmapActionIds,
       llm \in EvaluationResponses :
        LET res == submit_action_answers(context, step_number, action_id, llm)
        IN  Returns(res.ctx,
                    [op |-> "submit_action_answers", status |-> res.status,
                     agent_satisfied |-> res.agent_satisfied],
                    hist)

(***************************************************************************)
(* The agents called one at a time, outside the orchestrator's workflows.  *)
(***************************************************************************)
AnalyzeProfile ==
    \E llm \in ProfileResponses :
        LET res == analyze_profile(context, llm)
        IN  Returns(res.ctx, [op |-> "analyze_profile", status |-> res.status], hist)

InterpretGoal ==
    \E desired_role \in UserGoals, llm \in GoalResponses :
        LET res == interpret_goal(context, desired_role, llm)
        IN  Returns(res.ctx, [op |-> "interpret_goal", status |-> res.status], hist)

\* assessments of different scores, the lowest of the scale included
ReadinessScores ==
    ReadinessResponses
        \cup {[ok |-> TRUE, confidence_score |-> 0, readiness_verdict |-> "not_ready"]}

AssessReadiness ==
    \E llm \in ReadinessScores :
        LET res == assess_readiness(context, llm)
        IN  Returns(res.ctx, [op |-> "assess_readiness", status |-> res.status], hist)

\* market analyses of different dates
MarketUpdates ==
    MarketResponses \cup {[ok |-> TRUE, market_analysis |-> "later analysis"]}

AnalyzeMarket ==
    \E llm \in MarketUpdates :
        LET res == analyze_market(context, llm)
        IN  Returns(res.ctx, [op |-> "analyze_market", status |-> res.status], hist)

GeneratePath ==
    \E llm \in PathResponses :
        LET res == generate_path(context, llm, now)
        IN  Returns(res.ctx,
                    [op |-> "generate_path", status |-> res.status,
                     message |-> res.message],
                    hist)

NextAgents ==
    \/ now < MaxAgentOps /\ AnalyzeProfile
    \/ now < MaxAgentOps /\ InterpretGoal
    \/ now < MaxAgentOps /\ AssessReadiness
    \/ now < MaxAgentOps /\ AnalyzeMarket
    \/ now < MaxAgentOps /\ GeneratePath

SpecAgents == Init /\ [][NextAgents]_vars

(***************************************************************************)
(* The retry loops of the generation-service calls: call_llm,              *)
(* Orchestrator._call_llm_with_retry and APIClient.call_groq_api.  One     *)
(* action is one iteration of the loop: a dispatch and what follows it.    *)
(* The throttling sleep (min_request_interval) precedes the first dispatch *)
(* and is not a wait between attempts.                                     *)
(***************************************************************************)
MAX_RETRIES == 8
BASE_WAIT == 8

RECURSIVE Pow2(_)
Pow2(n) == IF n = 0 THEN 1 ELSE 2 * Pow2(n - 1)

CallSites == {"call_llm", "_call_llm_with_retry", "call_groq_api"}

\* what a dispatch can meet: an answer, a rate limit, another HTTP error, or
\* an exception of the transport (timeout, connection)
DispatchOutcomes == {"200", "429", "500", "exception"}

\* the retry ceiling of a call: the retries argument, or the class constant
retries_of(site, retries) == IF site = "call_groq_api" THEN MAX_RETRIES ELSE retries

\* a faulty variant of in_range: the loop has no ceiling
unbounded_range(attempt, retries) == attempt >= 0

\* for attempt in range(retries)
in_range(attempt, retries) == attempt < retries

\* the sleep after a rate-limit response at the given attempt
wait_time(site, attempt) ==
    IF site = "call_groq_api" THEN BASE_WAIT * Pow2(attempt) ELSE Pow2(attempt + 2)

\* the sleep after any other retried failure
error_wait(site, attempt) ==
    IF site = "call_groq_api" THEN BASE_WAIT * Pow2(attempt) ELSE 3

\* the call is made: the loop is about to start
StartCall ==
    /\ call.status = "idle"
    /\ \E site \in CallSites, retries \in 0..MaxRetries :
        call' = [status |-> "running", site |-> site,
                 retries |-> retries_of(site, retries),
                 attempt |-> 0, dispatched |-> 0, waits |-> <<>>,
                 rate_limited |-> TRUE, handed |-> "nothing", met |-> "nothing"]
    /\ UNCHANGED <<context, now, last, hist, run, throttle, writers>>

\* one iteration of the loop
Dispatch ==
    /\ call.status = "running"
    /\ in_range(call.attempt, call.retries)
    /\ \E outcome \in DispatchOutcomes :
        LET sent == [call EXCEPT !.dispatched = @ + 1,
                                 !.rate_limited = @ /\ outcome = "429",
                                 !.met = outcome]
            more == call.attempt < call.retries - 1
            sleeps(w) == [sent EXCEPT !.waits = Append(@, w), !.attempt = @ + 1]
            returns == [sent EXCEPT !.status = "returned", !.handed = "response"]
            raises == [sent EXCEPT !.status = "raised", !.handed = "error"]
            \* a non-429 HTTP error is re-raised at once by call_llm and
            \* _call_llm_with_retry, and retried by call_groq_api
            retried == outcome = "exception" \/ call.site = "call_groq_api"
        IN  call' = IF outcome = "200" THEN returns
                    ELSE IF outcome = "429"
                    THEN (IF more THEN sleeps(wait_time(call.site, call.attempt))
                          ELSE raises)
                    ELSE IF retried
                    THEN (IF more THEN sleeps(error_wait(call.site, call.attempt))
                          ELSE raises)
                    ELSE raises
    /\ UNCHANGED <<context, now, last, hist, run, throttle, writers>>

\* the loop ended without a return or a raise: the exception after it
Exhaust ==
    /\ call.status = "running"
    /\ ~in_range(call.attempt, call.retries)
    /\ call' = [call EXCEPT !.status = "raised", !.handed = "error"]
    /\ UNCHANGED <<context, now, last, hist, run, throttle, writers>>

NextRetry == StartCall \/ Dispatch \/ Exhaust

\* the loops run while they can: a started call is not abandoned
SpecRetry == Init /\ [][NextRetry]_vars /\ WF_vars(NextRetry)

(***************************************************************************)
(* Orchestrator.onboard_student, one stage at a time: the position of the  *)
(* run, the stages it has invoked, what the generation service answered    *)
(* and what each agent returned.                                           *)
(***************************************************************************)
\* text of the generation service that json.loads cannot parse
Malformed == [ok |-> FALSE, text |-> "not json"]

\* the agents' _call_llm: the parsed answer; an exception of the call or of
\* json.loads is printed and raised again
_call_llm(response) == IF response = Malformed THEN LLMError ELSE response

\* what the service answered a request with
answer_of(response) ==
    IF response = LLMError THEN "error"
    ELSE IF response = Malformed THEN "malformed"
    ELSE "parsed"

\* a faulty variant of following: market analysis precedes readiness
following_swapped(stage) ==
    CASE stage = "profiling" -> "goal_interpretation"
      [] stage = "goal_interpretation" -> "market"
      [] stage = "market" -> "readiness"
      [] stage = "readiness" -> "career_path"
      [] stage = "career_path" -> "roadmap"
      [] stage = "roadmap" -> "actions"
      [] OTHER -> "returned"

\* the stage that follows a stage in the body of onboard_student
following(stage) ==
    CASE stage = "profiling" -> "goal_interpretation"
      [] stage = "goal_interpretation" -> "readiness"
      [] stage = "readiness" -> "market"
      [] stage = "market" -> "career_path"
      [] stage = "career_path" -> "roadmap"
      [] stage = "roadmap" -> "actions"
      [] OTHER -> "returned"

\* whether the agent of a stage gets as far as its request to the service:
\* the prerequisite checks of the agents come before it
requests(stage, ctx) ==
    CASE stage = "readiness" ->
            ~(ctx.career_goals.interpreted_goal = Null /\ ctx.career_goals.current_goal = None)
      [] stage = "market" -> ctx.career_goals.interpreted_goal # Null
      [] stage = "career_path" ->
            /\ ctx.career_goals.interpreted_goal # Null
            /\ ctx.readiness.confidence_score # 0
            /\ ctx.market_context.target_role_analysis # None
      [] stage = "actions" -> ctx.active_path.path_id # Null
      [] OTHER -> TRUE

\* the responses a stage can meet: none matters when it makes no request
answers_to(stage, ctx, responses) ==
    IF requests(stage, ctx) THEN responses \cup {Malformed} ELSE {LLMError}

\* the call of onboard_student, for a new user or again for the same one:
\* the results start empty
BeginOnboarding ==
    /\ run.stage \in {"idle", "returned"}
    /\ now < MaxOnboardings
    /\ \E desired_role \in UserGoals :
        run' = [stage |-> "profiling", status |-> "running",
                desired_role |-> desired_role, agent_outputs |-> << >>,
                invoked |-> <<>>, answers |-> << >>]
    /\ UNCHANGED <<context, now, last, hist, call, throttle, writers>>

\* a stage has run: res is what its agent returned (status "raised" for an
\* exception) and response what the service answered.  The code after the
\* call reads the agent's output by key, which raises on an error result;
\* the readiness stage reads it with defaults.  Any exception ends the run
\* in the handler of onboard_student.
StageReturns(stage, res, response) ==
    LET proceeds == res.status = "success" \/ stage = "readiness"
        ends == ~proceeds \/ following(stage) = "returned"
        status == IF proceeds THEN "success" ELSE "error"
        outputs == IF res.status = "raised" THEN run.agent_outputs
                   ELSE Put(run.agent_outputs, stage, res.status)
        answer == IF requests(stage, context) THEN answer_of(response) ELSE "none"
    IN  /\ context' = res.ctx
        /\ run' = [run EXCEPT !.stage = IF ends THEN "returned" ELSE following(stage),
                              !.status = IF ends THEN status ELSE "running",
                              !.agent_outputs = outputs,
                              !.invoked = Append(@, stage),
                              !.answers = Put(@, stage, answer)]
        /\ IF ends
           THEN now' = now + 1 /\ last' = [op |-> "onboard_student", status |-> status]
           ELSE UNCHANGED <<now, last>>
        /\ UNCHANGED <<hist, call, throttle, writers>>

ProfilingStage ==
    /\ run.stage = "profiling"
    /\ \E response \in answers_to("profiling", context, ProfileResponses) :
        StageReturns("profiling", analyze_profile(context, _call_llm(response)), response)

GoalStage ==
    /\ run.stage = "goal_interpretation"
    /\ \E response \in answers_to("goal_interpretation", context, GoalResponses) :
        StageReturns("goal_interpretation",
                     interpret_goal(context, run.desired_role, _call_llm(response)),
                     response)

ReadinessStage ==
    /\ run.stage = "readiness"
    /\ \E response \in answers_to("readiness", context, ReadinessResponses) :
        StageReturns("readiness", assess_readiness(context, _call_llm(response)), response)

MarketStage ==
    /\ run.stage = "market"
    /\ \E response \in answers_to("market", context, MarketResponses) :
        StageReturns("market", analyze_market(context, _call_llm(response)), response)

PathStage ==
    /\ run.stage = "career_path"
    /\ \E response \in answers_to("career_path", context, PathResponses) :
        StageReturns("career_path", generate_path(context, _call_llm(response), now),
                     response)

\* the roadmap is saved from the generated path: no agent, no request
RoadmapStage ==
    /\ run.stage = "roadmap"
    /\ context' = update_roadmap(context, PathRoadmap(context))
    /\ run' = [run EXCEPT !.stage = following("roadmap"),
                          !.invoked = Append(@, "roadmap")]
    /\ UNCHANGED <<now, last, hist, call, throttle, writers>>

ActionStage ==
    /\ run.stage = "actions"
    /\ \E response \in answers_to("actions", context, ActionResponses) :
        StageReturns("actions", generate_actions(context, _call_llm(response)), response)

NextOnboard ==
    \/ BeginOnboarding
    \/ ProfilingStage
    \/ GoalStage
    \/ ReadinessStage
    \/ MarketStage
    \/ PathStage
    \/ RoadmapStage
    \/ ActionStage

SpecOnboard == Init /\ [][NextOnboard]_vars

(***************************************************************************)
(* The throttles of the generation-service requests.  Every request goes   *)
(* through requests.post, which the backend package replaces at import by  *)
(* _throttled_post; APIClient.call_groq_api, call_llm and                  *)
(* Orchestrator._call_llm_with_retry have a throttle of their own before   *)
(* it, each on its own timestamp.  Time is counted in half seconds.  A     *)
(* thread's record holds its position: pc, the call site, at ("own" for    *)
(* the site's throttle, "post" inside _throttled_post), the attempt of the *)
(* site's loop, the tries of the wrapper's loop, the sleep left and the    *)
(* position after it.                                                      *)
(***************************************************************************)
ThrottleSites == {"call_groq_api", "_call_llm_with_retry", "call_llm", "validation_request"}

\* the timestamp a call site's own throttle reads and writes
stamp_of(site) ==
    CASE site = "call_groq_api" -> "api_client"
      [] site = "call_llm" -> "api_utils"
      [] OTHER -> "orchestrator"

\* a faulty variant of interval_of: no spacing is configured
no_interval(stamp) == 0

\* the configured intervals: MIN_INTERVAL = 2 s, min_request_interval =
\* 1.5 s (api_utils) and 1.0 s (orchestrator), _min_request_interval = 1.5 s
interval_of(stamp) ==
    CASE stamp = "api_client" -> 4
      [] stamp = "orchestrator" -> 2
      [] OTHER -> 3

\* the attempts of a call site's loop (MAX_RETRIES, or the default retries)
attempts_of(site) ==
    CASE site = "call_groq_api" -> MAX_RETRIES
      [] site = "validation_request" -> 1
      [] OTHER -> 5

\* if elapsed < interval: the caller has to sleep
too_early(elapsed, interval) == elapsed < interval

\* the timestamp the throttle at a thread's position works on
guard_of(t) == IF t.at = "own" THEN stamp_of(t.site) ELSE "package"

\* a thread calls the generation service from one of the call sites
Arrive(th, sites) ==
    /\ throttle.threads[th].pc = "idle"
    /\ \E site \in sites :
        throttle' = [throttle EXCEPT !.threads[th] =
            [pc |-> "check", site |-> site,
             at |-> IF site = "validation_request" THEN "post" ELSE "own",
             attempt |-> 0, tries |-> 0, left |-> 0, then |-> "stamp",
             waited |-> FALSE]]
    /\ UNCHANGED <<context, now, last, hist, call, run, writers>>

\* elapsed = time.time() - last_request_time; if elapsed < interval: sleep
Check(th) ==
    LET t == throttle.threads[th]
        elapsed == throttle.age[guard_of(t)]
        interval == interval_of(guard_of(t))
    IN  /\ t.pc = "check"
        /\ throttle' = [throttle EXCEPT !.threads[th] =
                IF too_early(elapsed, interval)
                THEN [t EXCEPT !.pc = "sleep", !.left = interval - elapsed,
                               !.then = "stamp", !.waited = TRUE]
                ELSE [t EXCEPT !.pc = "stamp"]]
        /\ UNCHANGED <<context, now, last, hist, call, run, writers>>

\* time.sleep returns
Wake(th) ==
    LET t == throttle.threads[th]
    IN  /\ t.pc = "sleep"
        /\ t.left = 0
        /\ throttle' = [throttle EXCEPT !.threads[th] = [t EXCEPT !.pc = t.then]]
        /\ UNCHANGED <<context, now, last, hist, call, run, writers>>

\* last_request_time = time.time(); the site's own throttle is followed by
\* requests.post, that is the wrapper's throttle, and that by the dispatch
WriteStamp(th) ==
    LET t == throttle.threads[th]
    IN  /\ t.pc = "stamp"
        /\ throttle' = [throttle EXCEPT
                !.age[guard_of(t)] = 0,
                !.threads[th] = IF t.at = "own"
                                THEN [t EXCEPT !.pc = "check", !.at = "post", !.tries = 0]
                                ELSE [t EXCEPT !.pc = "send"]]
        /\ UNCHANGED <<context, now, last, hist, call, run, writers>>

\* the thread after a dispatch of the wrapper met the given outcome.  The
\* wrapper retries a 429 and an exception (max_retries 5), the call site's
\* loop handles what the wrapper hands back.  Every wait between attempts
\* is 3 seconds or more, that is Horizon or more.
after_dispatch(t, outcome) ==
    LET backoff == outcome \in {"429", "exception"} /\ t.tries < 4
        more == t.attempt < attempts_of(t.site) - 1
        retried == /\ outcome # "200"
                   /\ t.site # "validation_request"
                   /\ outcome = "500" => t.site = "call_groq_api"
    IN  IF backoff
        THEN [t EXCEPT !.pc = "sleep", !.left = Horizon, !.then = "stamp",
                       !.tries = @ + 1]
        ELSE IF retried /\ more
        THEN [t EXCEPT !.pc = "sleep", !.left = Horizon, !.at = "own",
                       !.then = IF t.site = "call_groq_api" THEN "check" ELSE "stamp",
                       !.attempt = @ + 1]
        ELSE NotCalling

\* _original_post: the request leaves for the generation service
Send(th, outcomes) ==
    LET t == throttle.threads[th]
    IN  /\ t.pc = "send"
        /\ \E outcome \in outcomes :
            throttle' = [throttle EXCEPT
                !.gap = throttle.since, !.since = 0,
                !.sent = IF @ < 2 THEN @ + 1 ELSE @,
                !.by = th, !.site = t.site, !.apart = throttle.by # th,
                !.waited = t.waited,
                !.threads[th] = after_dispatch(t, outcome)]
        /\ UNCHANGED <<context, now, last, hist, call, run, writers>>

\* half a second passes, while every thread sleeps or is outside the calls:
\* the statements between a check, a timestamp and a request take no time
Tick ==
    LET older(a) == IF a < Horizon THEN a + 1 ELSE a
    IN  /\ \A th \in Threads : throttle.threads[th].pc \in {"idle", "sleep"}
        /\ throttle' = [throttle EXCEPT
                !.age = [c \in Stamps |-> older(throttle.age[c])],
                !.since = older(@),
                !.threads = [th \in Threads |->
                    IF throttle.threads[th].pc = "sleep" /\ throttle.threads[th].left > 0
                    THEN [throttle.threads[th] EXCEPT !.left = @ - 1]
                    ELSE throttle.threads[th]]]
        /\ throttle' # throttle
        /\ UNCHANGED <<context, now, last, hist, call, run, writers>>

\* one caller: the synchronous execution of a request
NextThrottle ==
    \/ Tick
    \/ Arrive(1, ThrottleSites)
    \/ Check(1)
    \/ Wake(1)
    \/ WriteStamp(1)
    \/ Send(1, DispatchOutcomes)

SpecThrottle == Init /\ [][NextThrottle]_vars

\* two callers in one process, in the agents and in call_llm, every
\* request answered at once
NextThrottleRace ==
    \/ Tick
    \/ \E th \in Threads : Arrive(th, {"call_groq_api", "call_llm"})
    \/ \E th \in Threads : Check(th)
    \/ \E th \in Threads : Wake(th)
    \/ \E th \in Threads : WriteStamp(th)
    \/ \E th \in Threads : Send(th, {"200"})

SpecThrottleRace == Init /\ [][NextThrottleRace]_vars

(***************************************************************************)
(* UserContextManager under two concurrent callers for one user: every     *)
(* update is load_context, a change of the loaded dict, save_context.      *)
(* Here context is the file; a writer's record holds its position, the     *)
(* update it makes, the document it loaded and the rank of its save.       *)
(***************************************************************************)
\* the updates the writers make: record_progress and update_readiness with
\* their data
Updates ==
    {[op |-> "record_progress", data |-> [completion_rate |-> c]] : c \in {<<1, 2>>, <<1, 1>>}}
    \cup {[op |-> "update_readiness", data |-> [confidence_score |-> c]] : c \in {5, 7}}

\* a faulty variant of in_memory: the document is read again at the save
reloaded(disk, loaded) == disk

\* the document an update changes and saves is the dict load_context
\* returned to it, whatever the file holds by then
in_memory(disk, loaded) == loaded

\* the document an update writes
written(update, document) ==
    IF update.op = "record_progress" THEN record_progress(document, update.data)
    ELSE update_readiness(document, update.data)

\* context = self.load_context(user_id)
Load(w) ==
    /\ writers[w].pc = "idle"
    /\ \E update \in Updates :
        writers' = [writers EXCEPT ![w] =
            [pc |-> "loaded", update |-> update, document |-> context, rank |-> 0]]
    /\ UNCHANGED <<context, now, last, hist, call, run, throttle>>

\* the change of the loaded dict and self.save_context(user_id, context):
\* the whole document is written over the file; the update then returns
Save(w) ==
    /\ writers[w].pc = "loaded"
    /\ context' = written(writers[w].update, in_memory(context, writers[w].document))
    /\ writers' = [writers EXCEPT ![w] =
            [@ EXCEPT !.pc = "done",
                      !.rank = 1 + Cardinality({v \in Threads : writers[v].pc = "done"})]]
    /\ UNCHANGED <<now, last, hist, call, run, throttle>>

NextStore ==
    \/ \E w \in Threads : Load(w)
    \/ \E w \in Threads : Save(w)

SpecStore == Init /\ [][NextStore]_vars

(***************************************************************************)
(* A user who works through the roadmap in order: questions are asked and  *)
(* answers submitted only for the actions of the current step that are not *)
(* satisfied yet.  Submissions may fail; one that satisfies the agent is   *)
(* never refused for ever.                                                 *)
(***************************************************************************)
MaxWorkOps == 6

\* the step and action the user may work on: the unsatisfied actions of the
\* step numbered current_step_number, while the roadmap is not completed
InOrderTargets ==
    LET roadmap == context.roadmap
    IN  IF roadmap.status = "completed" THEN {}
        ELSE {<<roadmap.steps[s].step_number, roadmap.steps[s].actions[a].action_id>> :
                <<s, a>> \in {x \in (DOMAIN roadmap.steps) \X (1..2) :
                    /\ roadmap.steps[x[1]].step_number = roadmap.current_step_number
                    /\ x[2] \in DOMAIN roadmap.steps[x[1]].actions
                    /\ ~roadmap.steps[x[1]].actions[x[2]].agent_satisfied}}

StartRoadmap ==
    /\ context.roadmap.steps = <<>>
    /\ now < MaxWorkOps
    /\ GenerateRoadmap

AskQuestions ==
    /\ now < MaxWorkOps
    /\ \E target \in InOrderTargets :
        LET res == complete_action_in_roadmap(context, target[1], target[2])
        IN  Returns(res.ctx,
                    [op |-> "complete_action_in_roadmap", status |-> res.status], hist)

\* a submission the agent evaluates as satisfied, or not
Submission(satisfied) ==
    \E target \in InOrderTargets, llm \in EvaluationResponses :
        LET res == submit_action_answers(context, target[1], target[2], llm)
        IN  /\ evaluate_action_answers(llm).agent_satisfied = satisfied
            /\ Returns(res.ctx,
                       [op |-> "submit_action_answers", status |-> res.status,
                        agent_satisfied |-> res.agent_satisfied],
                       hist)

FailedSubmission == now < MaxWorkOps /\ Submission(FALSE)

SatisfiedSubmission == Submission(TRUE)

NextInOrder ==
    \/ StartRoadmap
    \/ AskQuestions
    \/ FailedSubmission
    \/ SatisfiedSubmission

\* the step of a satisfied submission, told by what the operation returns
SatisfiedSubmissionReturns ==
    /\ InOrderTargets # {}
    /\ now' = now + 1
    /\ last' = [op |-> "submit_action_answers", status |-> "success",
                agent_satisfied |-> TRUE]

\* a satisfied submission is possible wherever the user has an action to
\* work on: SatisfiedSubmissionReturns is enabled exactly where
\* SatisfiedSubmission is
SatisfiedSubmissionPossible ==
    InOrderTargets # {}
        => \E target \in InOrderTargets, llm \in EvaluationResponses :
            /\ evaluate_action_answers(llm).agent_satisfied
            /\ submit_action_answers(context, target[1], target[2], llm).status = "success"

\* the user goes on submitting until the agent is satisfied: the satisfied
\* submission, possible while an action of the current step is unsatisfied,
\* is eventually made
SpecInOrder == Init /\ [][NextInOrder]_vars /\ WF_now(SatisfiedSubmissionReturns)

(***************************************************************************)
(* Specifications: the operations of one area, a bounded number of them.   *)
(***************************************************************************)
\* every operation, any number of them
Next ==
    \/ Onboard
    \/ EvaluateAndFeedback
    \/ HandleFailureAndReroute
    \/ ApplyAlternativePath
    \/ ApplyAdjustedOriginalPath
    \/ RevertToOriginalPath
    \/ ValidateConsistency
    \/ GenerateRoadmap
    \/ DetectDeviationAndReroute
    \/ SelectRerouteOption
    \/ CompleteReroutedRoadmap
    \/ CompleteAction
    \/ ValidateActionCompletion
    \/ MarkActionAsCompleted
    \/ CompleteActionInRoadmap
    \/ SubmitActionAnswers

Spec == Init /\ [][Next]_vars

\* onboarding, feedback and the reroute operations
NextReroute ==
    \/ now < MaxRerouteOps /\ Onboard
    \/ now < MaxRerouteOps /\ EvaluateAndFeedback
    \/ now < MaxRerouteOps /\ HandleFailureAndReroute
    \/ now < MaxRerouteOps /\ ApplyAlternativePath
    \/ now < MaxRerouteOps /\ ApplyAdjustedOriginalPath
    \/ now < MaxRerouteOps /\ RevertToOriginalPath
    \/ now < MaxRerouteOps /\ ValidateConsistency
    \/ now < MaxRerouteOps /\ DetectDeviationAndReroute
    \/ now < MaxRerouteOps /\ SelectRerouteOption
    \/ now < MaxRerouteOps /\ CompleteReroutedRoadmap

SpecReroute == Init /\ [][NextReroute]_vars

\* the roadmap and its steps
NextRoadmap ==
    \/ now < MaxRoadmapOps /\ GenerateRoadmap
    \/ now < MaxRoadmapOps /\ CompleteActionInRoadmap
    \/ now < MaxRoadmapOps /\ SubmitActionAnswers

SpecRoadmap == Init /\ [][NextRoadmap]_vars

\* onboarding and the action plan
NextActions ==
    \/ now < MaxActionOps /\ Onboard
    \/ now < MaxActionOps /\ CompleteAction
    \/ now < MaxActionOps /\ ValidateActionCompletion
    \/ now < MaxActionOps /\ MarkActionAsCompleted

SpecActions == Init /\ [][NextActions]_vars

(***************************************************************************)
(* Properties of the reroute operations (SpecReroute).                     *)
(***************************************************************************)
\* C1: once active_path.original_target_role holds a value, no later
\* operation (path generation, reroute application, reversion) changes it.
C1_OriginalTargetRoleAssignedOnce ==
    [][context.active_path.original_target_role # None
        => context'.active_path.original_target_role
             = context.active_path.original_target_role]_vars

\* C1 happens: a role is recorded as the original one, the target role has
\* moved away from it, and a second path change (a reroute or a reversion)
\* has been applied and has regenerated the path since.
C1_Witness ==
    /\ context.active_path.original_target_role # None
    /\ context.active_path.target_role # context.active_path.original_target_role
    /\ Len(context.active_path.path_change_history) >= 2
    /\ last.op \in {"apply_alternative_path", "revert_to_original_path"}
    /\ last.status = "success"

\* C2: reroute_history.reroute_count equals the number of reroutes applied so
\* far (apply_alternative_path, apply_adjusted_original_path,
\* select_reroute_option); operations that only detect or propose leave it.
C2_RerouteCountIsAppliedReroutes ==
    context.reroute_history.reroute_count = hist.applied_reroutes

\* C6: after select_reroute_option succeeds for an alternative, the persisted
\* roadmap is the roadmap the call returns, at step 1 with no completed step.
C6_SelectedRoadmapPersisted ==
    (last.op = "select_reroute_option" /\ last.status = "success")
        => /\ context.roadmap = last.roadmap
           /\ context.roadmap.current_step_number = 1
           /\ context.roadmap.completed_steps = <<>>

\* C7: after apply_alternative_path (path_type alternative) or
\* select_reroute_option returns success, the persisted active_path.target_role
\* is the new_target_role of the selected alternative.
C7_TargetRoleIsSelectedRole ==
    /\ (/\ last.op = "apply_alternative_path"
        /\ last.status = "success"
        /\ last.path_type = "alternative")
            => context.active_path.target_role = last.new_target_role
    /\ (last.op = "select_reroute_option" /\ last.status = "success")
            => context.active_path.target_role = last.new_target_role

\* C8: on the context of an onboarded user (a path is active), a consistency
\* pass run directly after a consistency pass reports no issue and applies no
\* fix.
C8_ConsistencyPassIdempotent ==
    (/\ last.op = "_validate_consistency"
     /\ last.status = "returned"
     /\ last.repeated
     /\ context.active_path.path_id # Null)
        => last.total_issues = 0 /\ last.total_fixes = 0

(***************************************************************************)
(* Properties of the roadmap (SpecRoadmap).                                *)
(***************************************************************************)
\* the actions of a roadmap step
step_actions(step) == Get(step, "actions", <<>>)

\* every action of the step holds an evaluation at or above the threshold
\* (relevance scores are in tenths: 5 is the 0.5 of evaluate_action_answers)
all_satisfied(step) ==
    \A j \in DOMAIN step_actions(step) :
        /\ Get(step_actions(step)[j], "agent_satisfied", FALSE)
        /\ Get(step_actions(step)[j], "relevance_score", 0) >= 5

\* C3: whenever an operation sets a roadmap step to completed (its status
\* becomes completed, or its number is appended to completed_steps), every
\* action of that step is agent_satisfied.
C3_StepCompletedOnlyWhenAllSatisfied ==
    [][\A i \in DOMAIN context'.roadmap.steps :
         LET step == context'.roadmap.steps[i]
             was_completed == /\ i \in DOMAIN context.roadmap.steps
                              /\ context.roadmap.steps[i].status = "completed"
             appended == Len(context'.roadmap.completed_steps)
                            > Len(context.roadmap.completed_steps)
                         /\ context'.roadmap.completed_steps[
                                Len(context'.roadmap.completed_steps)] = step.step_number
         IN  (step.status = "completed" /\ (~was_completed \/ appended))
                => all_satisfied(step)]_vars

\* C3 happens: one step has been completed with all its actions satisfied,
\* while another step, whose actions have all been attempted but not all
\* satisfied, is not completed.
C3_Witness ==
    /\ last.op = "submit_action_answers"
    /\ \E i, k \in DOMAIN context.roadmap.steps :
        LET done == context.roadmap.steps[i]
            open == context.roadmap.steps[k]
        IN  /\ done.status = "completed"
            /\ all_satisfied(done)
            /\ open.status # "completed"
            /\ ~all_satisfied(open)
            /\ \A j \in DOMAIN step_actions(open) :
                    Get(step_actions(open)[j], "attempts", 0) > 0

\* C4: within one roadmap, current_step_number stays or moves from n to n+1,
\* and only when step n, then in_progress, becomes completed; only the current
\* in_progress step becomes completed; a completed step stays completed; no
\* step number is twice in completed_steps.
C4_ForwardSingleStep ==
    [][context'.roadmap.roadmap_id = context.roadmap.roadmap_id =>
        LET old == context.roadmap
            new == context'.roadmap
            n == old.current_step_number
        IN  /\ new.current_step_number \in {n, n + 1}
            /\ \A i \in DOMAIN old.steps :
                /\ (new.steps[i].status = "completed" /\ old.steps[i].status # "completed")
                      => old.steps[i].step_number = n /\ old.steps[i].status = "in_progress"
                /\ old.steps[i].status = "completed" => new.steps[i].status = "completed"
                /\ (new.current_step_number = n + 1 /\ old.steps[i].step_number = n)
                      => new.steps[i].status = "completed"
            /\ \A a, b \in DOMAIN new.completed_steps :
                    new.completed_steps[a] = new.completed_steps[b] => a = b]_vars

(***************************************************************************)
(* Properties of the action plan (SpecActions).                            *)
(***************************************************************************)
\* C5: progress.active_stage never decreases; an operation that finds the
\* stage complete raises it by exactly 1, any other operation leaves it.
C5_ActiveStageAdvancesByOne ==
    [][LET before == context.progress.active_stage
           after == context'.progress.active_stage
           events == hist'.stage_events - hist.stage_events
       IN  /\ after >= before
           /\ events \in {0, 1}
           /\ after - before = events]_vars

\* C5 happens: a validation or a forced completion has found stage 1 complete
\* and the active stage is 2.
C5_Witness ==
    /\ last.op \in {"validate_action_completion", "mark_action_as_completed"}
    /\ last.status = "success"
    /\ hist.stage_events = 1
    /\ context.progress.active_stage = 2

\* the pending action a caller's identifier names, as complete_action finds it
pending_named(action_id) ==
    LET pending == context.current_actions.pending_actions
    IN  pending[FirstIndex(pending,
                           {a \in Range(pending) : matches_action(a, action_id)})]

\* C9: after the third consecutive below-threshold validation of an action by
\* validate_action_completion, the action's attempt counter is 3 and
\* reroute_state.is_rerouting is true, auto-detected, with a failure reason
\* that holds the action's title.
C9_ThreeFailuresTriggerReroute ==
    (/\ last.op = "validate_action_completion"
     /\ last.status = "success"
     /\ last.score < 6
     /\ last.was_pending
     /\ hist.streak.n = 3)
        => /\ Get(pending_named(last.action_id), "attempts", 0) = 3
           /\ context.reroute_state.is_rerouting
           /\ Get(context.reroute_state, "auto_detected", FALSE)
           /\ Get(Get(context.reroute_state, "failure_reason", << >>), "title", None)
                = pending_named(last.action_id).title

\* C10: after validate_action_completion scores at least 6 for a pending
\* action that complete_action accepted under the identifier, no pending
\* action answers to the identifier, a completed one does with
\* agent_satisfied true, and completion_rate is |completed| / (|completed| +
\* |pending|).
C10_PassedActionMovesToCompleted ==
    (/\ last.op = "validate_action_completion"
     /\ last.status = "success"
     /\ last.score >= 6
     /\ last.was_pending)
        => LET pending == context.current_actions.pending_actions
               completed == context.current_actions.completed_actions
           IN  /\ \A i \in DOMAIN pending : ~matches_action(pending[i], last.action_id)
               /\ \E i \in DOMAIN completed :
                    /\ matches_action(completed[i], last.action_id)
                    /\ Get(completed[i], "agent_satisfied", FALSE)
               /\ context.progress.completion_rate
                    = Rate(Len(completed), Len(completed) + Len(pending))

(***************************************************************************)
(* Properties of a pivot to another path.                                  *)
(***************************************************************************)
\* forced completions of actions between deviations and pivots
NextPivot ==
    \/ now < MaxPivotOps /\ Onboard
    \/ now < MaxPivotOps /\ MarkActionAsCompleted
    \/ now < MaxPivotOps /\ ApplyAlternativePath
    \/ now < MaxPivotOps /\ DetectDeviationAndReroute
    \/ now < MaxPivotOps /\ SelectRerouteOption

SpecPivot == Init /\ [][NextPivot]_vars

\* the operation that just returned applied an alternative path
alternative_applied ==
    \/ /\ last.op = "apply_alternative_path"
       /\ last.status = "success"
       /\ last.path_type = "alternative"
    \/ /\ last.op = "select_reroute_option"
       /\ last.status = "success"
       /\ last.option_id # "original_adjusted"

\* C11: right after an alternative path is applied, by apply_alternative_path
\* with path_type alternative or by select_reroute_option with an
\* alternative, progress.completion_rate is 0.
C11_AlternativeResetsCompletion ==
    alternative_applied => context.progress.completion_rate = Rate(0, 1)

(***************************************************************************)
(* Properties of the retry loops (SpecRetry).                              *)
(***************************************************************************)
\* the call has ended
terminated == call.status \in {"returned", "raised"}

\* the base of the exponential backoff at a call site
base_of(site) == IF site = "call_groq_api" THEN BASE_WAIT ELSE 4

\* C12: when a call that met only rate-limit responses has ended, its waits
\* are base * 2^attempt for every attempt of 0 .. retries - 1.
C12_BackoffWaitsGeometric ==
    (terminated /\ call.rate_limited /\ call.retries > 0)
        => call.waits = [a \in 1..call.retries |-> base_of(call.site) * Pow2(a - 1)]

C14_PathPlanningNeedsGoal ==
    [][(last'.op = "generate_path" /\ context.career_goals.interpreted_goal = Null)
        => /\ last'.status = "error"
           /\ last'.message
                = "Missing interpreted goal. Run Goal Interpretation Agent first."
           /\ context'.active_path = context.active_path
           /\ context'.metadata = context.metadata
           /\ context' = context]_vars

\* C14 happens: path planning has refused a context in which other agents
\* had already written and logged, and none has interpreted a goal.
C14_Witness ==
    /\ last.op = "generate_path"
    /\ last.status = "error"
    /\ context.career_goals.interpreted_goal = Null
    /\ Len(context.metadata.system_events) > 0

(***************************************************************************)
(* Properties of the reversion and of the recorded original role.          *)
(***************************************************************************)
\* C15 as stated: revert_to_original_path called while completion_rate is
\* below 0.6 returns status warning and leaves the context unchanged.
C15_EarlyRevertWarns ==
    [][(last'.op = "revert_to_original_path"
            /\ RateLess(context.progress.completion_rate, 6, 10))
        => last'.status = "warning" /\ context' = context]_vars

\* C15 amended: revert_to_original_path called while an original target role
\* is recorded and completion_rate is below 0.6 returns status warning and
\* leaves the whole context unchanged; called with no original role recorded
\* it returns status error, the context unchanged as well.
C15_EarlyRevertOnAlternativeWarns ==
    [][(last'.op = "revert_to_original_path"
            /\ RateLess(context.progress.completion_rate, 6, 10))
        => /\ last'.status
                = IF context.active_path.original_target_role # None
                  THEN "warning" ELSE "error"
           /\ context'.active_path.target_role = context.active_path.target_role
           /\ context'.active_path.path_change_history
                = context.active_path.path_change_history
           /\ context'.reroute_history.reroute_count
                = context.reroute_history.reroute_count
           /\ context' = context]_vars

\* C15 happens: a reversion asked for on an applied alternative whose
\* completion is below 0.6 has returned a warning.
C15_Witness ==
    /\ last.op = "revert_to_original_path"
    /\ last.status = "warning"
    /\ context.active_path.original_target_role # None
    /\ context.active_path.current_path_type = "alternative"
    /\ RateLess(context.progress.completion_rate, 6, 10)

\* the operation of this step applied an alternative path
applies_alternative ==
    \/ /\ last'.op = "apply_alternative_path"
       /\ last'.status = "success"
       /\ last'.path_type = "alternative"
    \/ /\ last'.op = "select_reroute_option"
       /\ last'.status = "success"
       /\ last'.option_id # "original_adjusted"

\* C16: the first successful switch to an alternative, by apply_alternative_path
\* or by select_reroute_option, leaves in active_path.original_target_role
\* the target role that was active before it.
C16_FirstSwitchRecordsOriginalRole ==
    [][(context.active_path.original_target_role = None /\ applies_alternative)
        => context'.active_path.original_target_role
             = context.active_path.target_role]_vars

\* C17: every operation that changes an active_path.target_role already set
\* appends to path_change_history one entry holding the old and the new
\* role, and no operation removes or rewrites an entry of the history.
C17_RoleChangesAreRecorded ==
    [][LET old == context.active_path
           new == context'.active_path
           n == Len(old.path_change_history)
       IN  /\ Len(new.path_change_history) >= n
           /\ SubSeq(new.path_change_history, 1, n) = old.path_change_history
           /\ (old.target_role # None /\ new.target_role # old.target_role)
                => /\ Len(new.path_change_history) = n + 1
                   /\ new.path_change_history[n + 1].from_role = old.target_role
                   /\ new.path_change_history[n + 1].to_role = new.target_role]_vars

\* the operation of this step applied the adjusted-original option
applies_adjusted_original ==
    \/ /\ last'.op = "apply_adjusted_original_path"
       /\ last'.status = "success"
    \/ /\ last'.op = "apply_alternative_path"
       /\ last'.status = "success"
       /\ last'.path_type # "alternative"
    \/ /\ last'.op = "select_reroute_option"
       /\ last'.status = "success"
       /\ last'.option_id = "original_adjusted"

\* C18: an operation that applies the adjusted-original option leaves
\* active_path.target_role, the progress counters and the pending and
\* completed action lists as they were.
C18_AdjustedOriginalKeepsProgress ==
    [][applies_adjusted_original
        => /\ context'.active_path.target_role = context.active_path.target_role
           /\ context'.progress.completion_rate = context.progress.completion_rate
           /\ context'.progress.completed_steps = context.progress.completed_steps
           /\ context'.progress.time_spent_hours = context.progress.time_spent_hours
           /\ context'.current_actions.pending_actions
                = context.current_actions.pending_actions
           /\ context'.current_actions.completed_actions
                = context.current_actions.completed_actions]_vars

(***************************************************************************)
(* Properties of the rerouting machine.                                    *)
(***************************************************************************)
\* C19: while a detected deviation is open, select_reroute_option called with
\* 'original_adjusted' succeeds unless the roadmap cannot be generated; when
\* it succeeds it ends the rerouting and keeps active_path.target_role.
C19_AdjustedOriginalSelectable ==
    [][(/\ context.reroute_state.is_rerouting
        /\ last'.op = "select_reroute_option"
        /\ last'.option_id = "original_adjusted")
        => \/ /\ last'.status = "success"
              /\ ~context'.reroute_state.is_rerouting
              /\ context'.active_path.target_role = context.active_path.target_role
           \/ /\ last'.status = "error"
              /\ last'.message = "Failed to generate new roadmap"]_vars

\* C20: after select_reroute_option, apply_alternative_path or
\* apply_adjusted_original_path returned success, and after
\* complete_rerouted_roadmap, reroute_state.is_rerouting is false.
C20_AppliedRerouteEndsRerouting ==
    (\/ /\ last.op \in {"select_reroute_option", "apply_alternative_path",
                        "apply_adjusted_original_path"}
        /\ last.status = "success"
     \/ last.op = "complete_rerouted_roadmap")
        => ~context.reroute_state.is_rerouting

(***************************************************************************)
(* Properties of the onboarding run (SpecOnboard).                         *)
(***************************************************************************)
\* the i-th stage a run invoked did not succeed: its agent raised, or
\* returned a result whose status is not success
stage_failed(i) ==
    /\ run.invoked[i] # "roadmap"
    /\ run.invoked[i] \in DOMAIN run.agent_outputs =>
            run.agent_outputs[run.invoked[i]] # "success"

\* C21: in onboard_student, when a stage fails (missing prerequisite,
\* transport or rate-limit error after the retries) no later stage is
\* invoked, the run returns status error, and agent_outputs holds the
\* outputs of the stages that succeeded before it; for a failure of each
\* stage, readiness assessment included.
C21_FailedStageEndsOnboarding ==
    run.stage # "idle" =>
        \A i \in DOMAIN run.invoked :
            stage_failed(i) =>
                /\ i = Len(run.invoked)
                /\ run.stage = "returned"
                /\ run.status = "error"
                /\ \A j \in 1..(i - 1) :
                        run.invoked[j] # "roadmap" =>
                            /\ run.invoked[j] \in DOMAIN run.agent_outputs
                            /\ run.agent_outputs[run.invoked[j]] = "success"

C23_MalformedAnswerDoesNotEndRun ==
    run.stage # "idle" =>
        \A i \in DOMAIN run.invoked :
            (/\ run.invoked[i] \in DOMAIN run.answers
             /\ run.answers[run.invoked[i]] = "malformed") =>
                /\ run.invoked[i] \in DOMAIN run.agent_outputs
                /\ ~(i = Len(run.invoked) /\ run.stage = "returned" /\ run.status = "error")

(***************************************************************************)
(* Properties of the throttles (SpecThrottle, SpecThrottleRace).           *)
(***************************************************************************)
\* C24: any two successive dispatches to the generation service
\* made by one process are at least the configured minimum interval apart,
\* whichever call sites make them: a dispatch follows the previous one by
\* at least the interval configured for the call site that makes it
\* (MIN_INTERVAL = 2 s for APIClient.call_groq_api).
C24_DispatchesSpacedBySiteInterval ==
    throttle.sent >= 2 =>
        throttle.gap >= (IF throttle.site = "validation_request" THEN 3
                         ELSE IF throttle.site = "call_groq_api" THEN 4
                         ELSE IF throttle.site = "call_llm" THEN 3
                         ELSE 2)

\* what does hold for one caller at a time: successive dispatches are at
\* least 1.5 s (3 half seconds) apart, the interval of the wrapper of
\* requests.post, which every request passes
WrapperSpacesDispatches ==
    throttle.sent >= 2 => throttle.gap >= 3

\* C26: with two callers in one process the shared timestamp is read and
\* written without synchronization.  Two successive dispatches less than
\* the minimum interval apart are always dispatches of two different
\* callers (a caller never undercuts its own previous dispatch); the
\* witness is the interleaving in which both pass the spacing check.
C26_ShortGapIsBetweenTwoCallers ==
    (throttle.sent >= 2 /\ throttle.gap < 3) => throttle.apart

\* the second caller passed every spacing check without sleeping and
\* dispatched at the same instant as the first
C26_Witness ==
    /\ throttle.sent = 2
    /\ throttle.gap = 0
    /\ throttle.apart
    /\ ~throttle.waited

(***************************************************************************)
(* Properties of the concurrent updates (SpecStore).                       *)
(***************************************************************************)
\* C25: nothing in the store serializes or version-checks the writes of two
\* concurrent updates of one user: the file after the last save is the
\* document the last writer loaded with that writer's change alone,
\* whatever was saved between its load and its save.  The witness is the
\* interleaving that loses the first writer's update.
C25_LastSaveWritesLoadedDocument ==
    \A w \in Threads :
        (writers[w].pc = "done" /\ writers[w].rank = 2) =>
            context = written(writers[w].update, writers[w].document)

\* both updates returned; the first writer recorded a completion rate and
\* the second, which had loaded before that save, wrote the readiness: the
\* file holds the second update and the completion rate of before the first
C25_Witness ==
    /\ writers[1].pc = "done" /\ writers[1].rank = 1
    /\ writers[2].pc = "done" /\ writers[2].rank = 2
    /\ writers[1].update.op = "record_progress"
    /\ writers[2].update.op = "update_readiness"
    /\ context.readiness.confidence_score = writers[2].update.data.confidence_score
    /\ context.progress.completion_rate = <<0, 1>>
    /\ context.progress.completion_rate # writers[1].update.data.completion_rate

(***************************************************************************)
(* Properties of the market context (SpecAgents).                          *)
(***************************************************************************)
\* C27: market_context.market_trends is append-only: each successful market
\* analysis adds one entry to it, and the entries recorded by the earlier
\* analyses are still there afterwards.
C27_MarketTrendsAppendOnly ==
    [][(last'.op = "analyze_market" /\ last'.status = "success") =>
            LET before == context.market_context.market_trends
                after == context'.market_context.market_trends
            IN  /\ Len(after) = Len(before) + 1
                /\ SubSeq(after, 1, Len(before)) = before]_vars

(***************************************************************************)
(* Properties of the attempt counters (SpecActions).                       *)
(***************************************************************************)
\* C28: a validation that scores below the passing threshold leaves the
\* action pending (not in the completed list, agent_satisfied not true) and
\* raises the action's attempt counter by exactly 1 over the whole
\* validation; here the path complete_action, validate_action_completion:
\* after the evaluation the counter is one more than before complete_action.
C28_FailedValidationCountsOneAttempt ==
    [][(/\ last.op = "complete_action"
        /\ last.status = "success"
        /\ last'.op = "validate_action_completion"
        /\ last'.status = "success"
        /\ last'.score < 6
        /\ last'.was_pending
        /\ last'.action_id = last.action_id)
            => /\ attempts_so_far(context', last.action_id) = last.attempts + 1
               /\ \E i \in DOMAIN context'.current_actions.pending_actions :
                    LET a == context'.current_actions.pending_actions[i]
                    IN  /\ matches_action(a, last.action_id)
                        /\ ~Get(a, "agent_satisfied", FALSE)
               /\ \A i \in DOMAIN context'.current_actions.completed_actions :
                    ~matches_action(context'.current_actions.completed_actions[i],
                                    last.action_id)]_vars

(***************************************************************************)
(* Properties of the step percentages (SpecRoadmap).                       *)
(***************************************************************************)
\* C29: in every persisted state each roadmap step's completion_percentage
\* (0 while none has been written) equals the number of its actions whose
\* validation is satisfied over the number of its actions, after any
\* sequence of complete_action_in_roadmap and submit_action_answers calls,
\* a new submission for an already completed action included.
C29_StepPercentageIsSatisfiedShare ==
    \A i \in DOMAIN context.roadmap.steps :
        LET actions == Get(context.roadmap.steps[i], "actions", <<>>)
            satisfied == {j \in DOMAIN actions : Get(actions[j], "agent_satisfied", FALSE)}
        IN  Get(context.roadmap.steps[i], "completion_percentage", <<0, 1>>)
                = IF Len(actions) > 0
                  THEN Rate(Cardinality(satisfied), Len(actions))
                  ELSE <<0, 1>>

(***************************************************************************)
(* Properties of a reversion asked for off an alternative (SpecReroute).   *)
(***************************************************************************)
\* C30: revert_to_original_path changes the context only when the user is on
\* an alternative path and completion_rate is at least 0.6; called while the
\* user is on the original or the adjusted-original path (right after a
\* reversion, for example) it leaves the target role as it is, appends no
\* path change and does not raise reroute_count.
C30_RevertOffAlternativeRestoresNothing ==
    [][last'.op = "revert_to_original_path"
        => /\ context' # context
                => /\ context.active_path.current_path_type = "alternative"
                   /\ ~RateLess(context.progress.completion_rate, 6, 10)
           /\ context.active_path.current_path_type \in {"original", "adjusted_original"}
                => /\ context'.active_path.target_role = context.active_path.target_role
                   /\ context'.active_path.path_change_history
                        = context.active_path.path_change_history
                   /\ context'.reroute_history.reroute_count
                        = context.reroute_history.reroute_count]_vars

(***************************************************************************)
(* Properties of the consistency pass and of the rerouting state           *)
(* (SpecReroute).                                                          *)
(***************************************************************************)
\* C31: after _validate_consistency has returned from a context that holds an
\* active path (so that the action agent does not refuse), whose path is not
\* completed and whose pending_actions list is empty, the action generation
\* it asked for having succeeded, the persisted context holds at least one
\* pending action.
C31_PassLeavesPendingAction ==
    [][(/\ last'.op = "_validate_consistency"
        /\ last'.status = "returned"
        /\ context.active_path.path_id # Null
        /\ context.active_path.status # "completed"
        /\ context.current_actions.pending_actions = <<>>)
            => context'.current_actions.pending_actions # <<>>]_vars

\* C32: in every persisted state, is_rerouting = true implies that
\* reroute_state stores at least one selectable option: a non-empty
\* alternative_roadmaps list or an adjusted-original option.
C32_ReroutingHasSelectableOption ==
    context.reroute_state.is_rerouting
        => \/ context.reroute_state.alternative_roadmaps # <<>>
           \/ Get(context.reroute_state, "adjusted_original", Null) # Null

(***************************************************************************)
(* Properties of the failures a dispatch can meet (SpecRetry).             *)
(***************************************************************************)
\* C33: a dispatch that meets a non-200 response other than 429 (a 500, for
\* example) ends the call at every call site: the error is handed to the
\* caller at once, with no further attempt and no backoff sleep.
C33_OtherHttpErrorIsFatal ==
    [][(/\ call.status = "running"
        /\ call'.status # "idle"
        /\ call'.dispatched = call.dispatched + 1
        /\ call'.met = "500")
        => /\ call'.status = "raised"
           /\ call'.handed = "error"
           /\ call'.waits = call.waits]_vars

\* C34: on a failure of the transport (connection error, timeout) a call site
\* that retries waits a delay that does not grow with the attempt number (two
\* failures in a row are followed by the same wait), and the failure met at
\* the last attempt allowed is handed to the caller.
C34_TransportRetryDelayIsFixed ==
    [][(/\ call.status = "running"
        /\ call'.status # "idle"
        /\ call'.dispatched = call.dispatched + 1
        /\ call'.met = "exception")
        => /\ (/\ call.met = "exception"
               /\ Len(call'.waits) = Len(call.waits) + 1
               /\ Len(call.waits) > 0)
                    => call'.waits[Len(call'.waits)] = call.waits[Len(call.waits)]
           /\ call.attempt = call.retries - 1
                    => call'.status = "raised" /\ call'.handed = "error"]_vars

(***************************************************************************)
(* Properties of the prerequisites of path planning (SpecAgents).          *)
(***************************************************************************)
\* C35: generate_path returns the missing-prerequisite error exactly when the
\* interpreted goal, the readiness assessment or the market analysis has not
\* been recorded; a recorded assessment counts as present whatever its
\* confidence score, 0 included.
C35_PathPlanningNeedsRecordedPrerequisites ==
    [][last'.op = "generate_path"
        => (last'.status = "error"
                <=> \/ context.career_goals.interpreted_goal = Null
                    \/ context.readiness.readiness_verdict = None
                    \/ context.market_context.target_role_analysis = None)]_vars

C37_SectionsChangeOnlyUnderTheirManager ==
    [][/\ context'.student_profile # context.student_profile
            => last'.op = "onboard_student"
       /\ context'.career_goals # context.career_goals
            => last'.op = "onboard_student"
       /\ context'.readiness # context.readiness
            => last'.op = "onboard_student"
       /\ context'.market_context # context.market_context
            => last'.op = "onboard_student"
       /\ context'.active_path # context.active_path
            => last'.op \in {"onboard_student", "apply_alternative_path",
                             "revert_to_original_path"}]_vars

(***************************************************************************)
(* Properties of the stage progression and of the completed actions        *)
(* (SpecActions, SpecPivot).                                               *)
(***************************************************************************)
\* C38: progress.active_stage is persisted advanced only together with the
\* pending actions generated for the new stage: an operation that changes
\* active_stage leaves a non-empty pending_actions list whose actions all
\* carry the new stage.
C38_StageAdvancesOnlyWithItsActions ==
    [][context'.progress.active_stage # context.progress.active_stage
        => /\ context'.current_actions.pending_actions # <<>>
           /\ \A i \in DOMAIN context'.current_actions.pending_actions :
                Get(context'.current_actions.pending_actions[i], "stage", 0)
                    = context'.progress.active_stage]_vars

\* C39: select_reroute_option, apply_alternative_path or
\* apply_adjusted_original_path returning a status other than success leaves
\* the persisted context as it was before the call: the role, reroute_count,
\* the progress and is_rerouting included.
C39_FailedRerouteLeavesContext ==
    [][(/\ last'.op \in {"select_reroute_option", "apply_alternative_path",
                         "apply_adjusted_original_path"}
        /\ last'.status # "success")
            => /\ context'.active_path.target_role = context.active_path.target_role
               /\ context'.reroute_history.reroute_count
                    = context.reroute_history.reroute_count
               /\ context'.progress = context.progress
               /\ context'.reroute_state.is_rerouting
                    = context.reroute_state.is_rerouting
               /\ context' = context]_vars

\* C40: in every state each entry of current_actions.completed_actions is an
\* action that passed validation or was marked complete by the user (the move
\* into the list gives it status completed and agent_satisfied true); no
\* operation puts a pending action that was never completed into the list.
C40_CompletedActionsWereCompleted ==
    \A i \in DOMAIN context.current_actions.completed_actions :
        LET a == context.current_actions.completed_actions[i]
        IN  /\ Get(a, "status", None) = "completed"
            /\ Get(a, "agent_satisfied", FALSE)
====
